---- MODULE Spec2Model ----
(***************************************************************************)
(* A model of package-fast's concurrent core, translated from              *)
(* src/unnamed/part_004: the bounded-concurrency TaskQueue (lines 29-103)  *)
(* and the HttpClient with its connection pool and BatchedRequestManager   *)
(* (lines 242-578), the WorkerPool (lines 105-149), parallelMap (lines      *)
(* 168-186) and parallelReduce (lines 195-215), and of its caches,         *)
(* translated from src/src/cache.js: LRUCache (lines 11-57), FileCache     *)
(* (lines 59-132) and PackageCache (lines 134-187).                        *)
(*                                                                         *)
(* JavaScript runs these classes on one thread: a synchronous stretch of   *)
(* a method is one atomic action, and every `await`, promise reaction and  *)
(* timer is a point where other actions interleave.                        *)
(***************************************************************************)
EXTENDS Integers, Sequences, FiniteSets, TLC

(***************************************************************************)
(* Bounds of the model                                                     *)
(***************************************************************************)
\* number of task objects a caller may hand to add()
MaxTasks == 2
\* number of run() calls a caller may make on one queue
MaxRuns == 2
\* largest value of options.concurrency tried
MaxConcurrency == 2
\* number of request() calls made on the client or the manager
MaxCalls == 2
\* largest value of options.maxConnectionsPerHost tried
MaxConnLimit == 1
\* the clock advances this many times, in steps of ReuseWindow / StepsPerWindow
MaxSteps == 1
StepsPerWindow == 1
\* largest maxSize an LRUCache is built with
MaxCapacity == 2
\* longest array handed to parallelReduce
MaxLen == 3
\* number of destroy() calls a caller may make on one WorkerPool
MaxDestroys == 1
\* number of close() calls a caller may make on one HttpClient
MaxCloses == 1

(***************************************************************************)
(* Program constants                                                       *)
(***************************************************************************)
\* the idle-reuse window of getAvailableConnection, in ms (line 316)
ReuseWindow == 30000
\* options.timeout's default, in ms (line 246)
DefaultTimeout == 30000
\* options.maxBatchSize's default (line 509)
DefaultMaxBatchSize == 50
\* options.fileCacheTTL's default, in ms (cache.js line 139)
DefaultFileCacheTTL == 1800000

TaskIds == 1..MaxTasks
RunIds == 1..MaxRuns
CallIds == 1..MaxCalls

\* the shapes executeTask tells apart: a function, an object with an
\* execute() method, anything else
TaskKinds == {"function", "object", "invalid"}

\* request inputs: a URL is <<origin, path>>; options are the list of the
\* object's own properties in insertion order. Inputs are the (url, options)
\* pairs the callers use: one URL with two different options, and a URL
\* on a second host, which is reached over https.
Urls == {<<"http://h1", "/a">>, <<"https://h2", "/a">>}
Options == {<<>>, << <<"method", "POST">> >>}
Inputs == {<< <<"http://h1", "/a">>, <<>> >>,
           << <<"http://h1", "/a">>, << <<"method", "POST">> >> >>,
           << <<"https://h2", "/a">>, <<>> >>}

\* the origins whose parsedUrl.protocol is 'https:' (line 336)
HttpsOrigins == {"https://h2"}

\* how makeRequest settles (lines 364-473): with a response, or with an
\* error (a socket error, a JSON.parse error or the request timeout, all of
\* which reject its promise the same way)
TransportOutcomes == {"ok", "error"}

\* cache keys
CacheKeys == {"a", "b", "c", "d"}

\* the keys the callers of a cache of up to MaxCapacity entries use
LRUKeys == {"a", "b", "c"}

\* JavaScript values: null, undefined, booleans, numbers, strings and
\* objects with one property, as tagged tuples
JNull == <<"null">>
JUndefined == <<"undefined">>
JTrue == <<"bool", TRUE>>
JFalse == <<"bool", FALSE>>
JOne == <<"num", 1>>
JStrOne == <<"str", "1">>
JObj == <<"obj", "x", JOne>>

\* the values callers store: the number 1, the string "1", the object
\* {x: 1} and null
CacheValues == {JOne, JStrOne, JObj, JNull}

\* NaN
JNaN == <<"NaN">>

\* the integers parallelReduce is given
ReduceInts == {-1, 0, 2}

\* a Map slot without an entry
Absent == <<"absent">>

\* an array slot nothing was written to
Hole == <<"empty">>

\* the items of the arrays parallelMap is given
MapItems == {"x", "y"}

DestroyIds == 1..MaxDestroys

VARIABLES
  \* ---- TaskQueue fields (constructor, lines 30-37)
  concurrency,   \* this.concurrency
  tasks,         \* this.tasks: queue of task ids
  running,       \* this.running: the chained promises, one per started task
  results,       \* this.results: values in the order they were pushed
  errors,        \* this.errors: errors in the order they were pushed
  completed,     \* this.completed
  \* ---- the callers and the promises around the TaskQueue
  tkind,         \* the shape of each task object
  tstate,        \* where each task is: new/refused/queued/running/settled/done
  outcome,       \* how executeTask(task) settled: none/ok/fail
  starts,        \* how many times each task was handed to executeTask
  submitted,     \* the tasks add() accepted, in call order
  microtasks,    \* promise reactions waiting to run, FIFO
  runpc,         \* each run() call: idle/awaiting/resolved/rejected/refused
  raceSet,       \* the promises Promise.race was given by an awaiting run()
  thrownCount,   \* errors.length as reported by a rejected run(), else -1
  \* ---- HttpClient fields (constructor, lines 243-251)
  enableBatching,         \* this.enableBatching: requests go through batchManager
  maxConnectionsPerHost,  \* this.maxConnectionsPerHost
  useHttp2,               \* this.useHttp2
  poolKeys,               \* the host keys present in this.connectionPool
  connections,            \* pool.connections per host key: entry ids in array order
  pending,                \* pool.pending per host key: the waiters, in push order
  inUse,                  \* poolConnection.inUse of each pool entry
  lastUsed,               \* poolConnection.lastUsed of each pool entry
  transport,              \* poolConnection.connection of each pool entry:
                          \* none, an agent or an http2 session
  destroyed,              \* the entries whose transport was destroyed
  orphaned,               \* the requests whose pool object close() removed
                          \* from connectionPool while they were suspended
  closes,                 \* how many times close() was called
  calledIdle,             \* the requests called with no request of their host in flight
  \* ---- BatchedRequestManager fields (constructor, lines 506-512)
  maxBatchSize,           \* this.maxBatchSize
  pendingRequests,        \* this.pendingRequests: buffered entries
  requestCache,           \* this.requestCache: fingerprint -> entry (0: absent)
  throwsFor,              \* the host keys for which the request() of the
                          \* client handed to the manager throws at once
  \* ---- calls in progress, promises, timers and the clock
  now,           \* Date.now()
  cstate,        \* each caller's request(): new or called
  follows,       \* the entry whose promise the caller was handed (0: none)
  creq,          \* the url and options the caller gave the manager
  rpc,           \* each HttpClient.request run on the pool: none/creating/
                 \* waiting/requesting/done/failed
  rhost,         \* its host key
  held,          \* the pool entry it executes on (0: none)
  deadline,      \* when its waitForAvailableConnection timer is due
  rout,          \* how it settled
  made,          \* whether makeRequest was invoked for it
  createQ,       \* requests suspended at `await createConnection`, FIFO
  estate,        \* each buffered entry: none/buffered/inflight/resolved/rejected
  ereq,          \* its url and options
  batchOf,       \* the executeBatch call that detached it (0: none)
  innerFollows,  \* the entry whose promise httpClient.request returned for it
  eout,          \* how its promise settled
  cleared,       \* how many times requestCache.delete ran for it
  flushTimers,   \* armed setTimeout(() => this.executeBatch()) timers
  freshTimers,   \* those of them armed since the buffer last became non-empty
  \* ---- LRUCache fields (cache.js constructor, lines 12-16)
  maxSize,       \* this.maxSize
  cache,         \* this.cache: key -> value (Absent: no entry)
  accessOrder,   \* this.accessOrder: the Set's keys in insertion order
  \* ---- what the callers of the LRUCache did
  touched,       \* the keys get hit or set was called on, least recent first
  onlyGetSet,    \* no delete() or clear() has been called
  lastHit,       \* the key of the latest LRUCache call if it was a get hit
  \* ---- FileCache fields (cache.js constructor, lines 60-64), the disk
  ttl,           \* this.ttl
  dirExists,     \* whether this.cacheDir exists
  files,         \* the files of cacheDir by name: exists, data, mtime
  cnow,          \* Date.now() as FileCache.get reads it
  warned,        \* the cache calls for which a warning was logged
  \* ---- the cache calls in progress
  cop,           \* the method called: none, or get/set/delete of
                 \* PackageCache, fget/fset/fdelete of FileCache
  ckey,          \* its key
  cval,          \* its value argument
  cpc,           \* the await it is suspended at: new/stat/read/unlink/
                 \* access/mkdir/write/funlink, or done
  cres,          \* how its promise settled
  cfileTier,     \* whether it called into FileCache
  cage,          \* the age FileCache.get computed (-1: none)
  cunlink,       \* what its fs.unlink did: none/removed/ENOENT
  cfault,        \* the disk failure it ran into: none/missing/unreadable/
                 \* malformed/write
  cprior,        \* the calls that had settled when it was made
  cdoneAtEnd,    \* the calls that had settled when it settled
  clearedSince,  \* the calls that had settled when clear() last ran
  cafterClear,   \* clearedSince when the call was made
  \* ---- one parallelReduce call (lines 195-215)
  redArray,      \* array
  redInitial,    \* initialValue
  redK,          \* concurrency
  redPc,         \* called, awaiting (at Promise.all) or done
  chunkResults,  \* chunkResults
  redResult,     \* the value the call resolved with
  \* ---- one parallelMap call (lines 168-186)
  pmArray,       \* array
  pmResults,     \* results
  pmPc,          \* called, awaiting (at queue.run()), resolved or rejected
  \* ---- WorkerPool fields (constructor, lines 106-111)
  wconcurrency,  \* this.concurrency
  workers,       \* this.workers: worker handles in creation order
  idleWorkers,   \* this.idleWorkers: a stack of worker handles
  taskQueue,     \* this.taskQueue: the queued execute() calls
  \* ---- the callers of the WorkerPool and its workers
  wkind,         \* the shape of each task handed to execute()
  wstate,        \* each execute() call: new/queued/executing/resolved/
                 \* rejected, or dropped by destroy()
  won,           \* the worker handle the task was run on (0: none)
  created,       \* how many Worker objects were constructed
  dpc            \* each destroy() call: idle/awaiting/done

tqVars == <<concurrency, tasks, running, results, errors, completed, tkind,
            tstate, outcome, starts, submitted, microtasks, runpc, raceSet,
            thrownCount>>

httpVars == <<enableBatching, maxConnectionsPerHost, useHttp2, poolKeys,
              connections, pending, inUse, lastUsed, transport, destroyed,
              orphaned, closes, calledIdle, maxBatchSize, pendingRequests,
              throwsFor,
              requestCache, now, cstate, follows, creq, rpc, rhost, held,
              deadline, rout, made, createQ, estate, ereq, batchOf,
              innerFollows, eout, cleared, flushTimers, freshTimers>>

lruVars == <<maxSize, cache, accessOrder, touched, onlyGetSet, lastHit>>

fileVars == <<ttl, dirExists, files, cnow, warned>>

callVars == <<cop, ckey, cval, cpc, cres, cfileTier, cage, cunlink,
              cfault, cprior, cdoneAtEnd, clearedSince, cafterClear>>

cacheVars == <<lruVars, fileVars, callVars>>

reduceVars == <<redArray, redInitial, redK, redPc, chunkResults, redResult>>

mapVars == <<pmArray, pmResults, pmPc>>

workerVars == <<wconcurrency, workers, idleWorkers, taskQueue, wkind, wstate,
                won, created, dpc>>

utilVars == <<reduceVars, mapVars, workerVars>>

vars == <<tqVars, httpVars, cacheVars, utilVars>>

(***************************************************************************)
(* Sequence helpers                                                        *)
(***************************************************************************)
Range(s) == {s[i] : i \in 1..Len(s)}

\* Array.prototype.splice(indexOf(x), 1): drop the first occurrence of x
RemoveFirst(s, x) ==
  IF \E i \in 1..Len(s) : s[i] = x
  THEN LET i == CHOOSE j \in 1..Len(s) : s[j] = x /\ \A k \in 1..(j-1) : s[k] # x
       IN  SubSeq(s, 1, i-1) \o SubSeq(s, i+1, Len(s))
  ELSE s

Min(a, b) == IF a < b THEN a ELSE b

\* the value task t returns when it succeeds, and the error it throws when
\* it fails; distinct tasks return distinct values
ValueOf(t) == <<"value", t>>
ErrorOf(t) == <<"error", t>>

(***************************************************************************)
(* TaskQueue                                                               *)
(***************************************************************************)
\* constructor (lines 30-37)
TaskQueueConstructed(c) ==
  /\ concurrency = c
  /\ tasks = <<>>
  /\ running = <<>>
  /\ results = <<>>
  /\ errors = <<>>
  /\ completed = FALSE
  /\ tkind = [t \in TaskIds |-> "function"]
  /\ tstate = [t \in TaskIds |-> "new"]
  /\ outcome = [t \in TaskIds |-> "none"]
  /\ starts = [t \in TaskIds |-> 0]
  /\ submitted = <<>>
  /\ microtasks = <<>>
  /\ runpc = [r \in RunIds |-> "idle"]
  /\ raceSet = [r \in RunIds |-> {}]
  /\ thrownCount = [r \in RunIds |-> -1]

\* add() without its guard on this.completed
AddNeverRefuses == FALSE

\* add(task) (lines 39-44): throws on a completed queue, else enqueues
AddRefuses == completed

Add(t, kind) ==
  /\ tstate[t] = "new"
  /\ \A u \in TaskIds : u < t => tstate[u] # "new"
  /\ tkind' = [tkind EXCEPT ![t] = kind]
  /\ IF AddRefuses
     THEN /\ tstate' = [tstate EXCEPT ![t] = "refused"]
          /\ UNCHANGED <<tasks, submitted>>
     ELSE /\ tstate' = [tstate EXCEPT ![t] = "queued"]
          /\ tasks' = Append(tasks, t)
          /\ submitted' = Append(submitted, t)
  /\ UNCHANGED <<httpVars, cacheVars, utilVars>>
  /\ UNCHANGED <<concurrency, running, results, errors, completed, outcome,
                 starts, microtasks, runpc, raceSet, thrownCount>>

\* an outer loop that gives up as soon as one task has failed
LoopConditionAbortOnError(q) ==
  Len(errors) = 0 /\ (Len(q) > 0 \/ Len(running) > 0)

\* an outer loop that looks at the queue only and not at the tasks in flight
LoopConditionQueueOnly(q) == Len(q) > 0

\* the outer loop's condition (line 52), q being this.tasks
LoopCondition(q) == Len(q) > 0 \/ Len(running) > 0

\* an inner loop that starts every queued task whatever is already running
StartCountUnbounded(q) == Len(q)

\* the inner loop (lines 54-75) runs without suspension: it shifts tasks
\* into running while running.length < concurrency, q being this.tasks
StartCount(q) ==
  IF Len(running) < concurrency
  THEN Min(concurrency - Len(running), Len(q))
  ELSE 0

\* executeTask (lines 94-102) rejects at once for a task that is neither a
\* function nor an object with execute()
ThrowsAtStart(t) == tkind[t] = "invalid"

\* One pass of run()'s body from the top of the outer loop to its next
\* suspension or to its end (lines 52-91), for run() call r, when the
\* stretch it is part of has brought this.tasks to q and the tasks to the
\* places ts.
RunBodyOn(r, q, ts) ==
  IF LoopCondition(q)
  THEN LET k       == StartCount(q)
           started == SubSeq(q, 1, k)
           S       == Range(started)
           bad     == SelectSeq(started, ThrowsAtStart)
       IN  /\ tasks' = SubSeq(q, k + 1, Len(q))
           /\ running' = running \o started
           /\ starts' = [t \in TaskIds |-> IF t \in S THEN starts[t] + 1 ELSE starts[t]]
           /\ tstate' = [t \in TaskIds |->
                           IF t \in S
                           THEN IF ThrowsAtStart(t) THEN "settled" ELSE "running"
                           ELSE ts[t]]
           /\ outcome' = [t \in TaskIds |->
                           IF t \in S /\ ThrowsAtStart(t) THEN "fail" ELSE outcome[t]]
           \* a rejection first passes through .then() before .catch() sees it
           /\ microtasks' = microtasks \o [i \in 1..Len(bad) |-> <<bad[i], "pass">>]
           \* line 78: running is never empty here; await Promise.race(running)
           /\ runpc' = [runpc EXCEPT ![r] = "awaiting"]
           /\ raceSet' = [raceSet EXCEPT ![r] = Range(running')]
           /\ UNCHANGED <<completed, thrownCount, results, errors>>
  ELSE /\ completed' = TRUE
       /\ IF Len(errors) > 0
          THEN /\ runpc' = [runpc EXCEPT ![r] = "rejected"]
               /\ thrownCount' = [thrownCount EXCEPT ![r] = Len(errors)]
          ELSE /\ runpc' = [runpc EXCEPT ![r] = "resolved"]
               /\ UNCHANGED thrownCount
       /\ tasks' = q
       /\ tstate' = ts
       /\ UNCHANGED <<running, starts, outcome, microtasks, raceSet, results,
                      errors>>

\* the same pass when run() is called or resumed on its own
RunBody(r) == RunBodyOn(r, tasks, tstate)

\* run() is called (lines 46-49)
RunRefuses == completed

RunCall(r) ==
  /\ runpc[r] = "idle"
  /\ \A q \in RunIds : q < r => runpc[q] # "idle"
  /\ IF RunRefuses
     THEN /\ runpc' = [runpc EXCEPT ![r] = "refused"]
          /\ UNCHANGED <<tasks, running, results, errors, completed, tstate,
                         outcome, starts, microtasks, raceSet, thrownCount>>
     ELSE RunBody(r)
  /\ UNCHANGED <<httpVars, cacheVars, utilVars>>
  /\ UNCHANGED <<concurrency, tkind, submitted>>

\* Promise.race(this.running) settles once one of the promises it was given
\* has settled, and run() resumes at the top of the outer loop (lines 79, 52)
RunResume(r) ==
  /\ runpc[r] = "awaiting"
  /\ \E t \in raceSet[r] : tstate[t] = "done"
  /\ RunBody(r)
  /\ UNCHANGED <<httpVars, cacheVars, utilVars>>
  /\ UNCHANGED <<concurrency, tkind, submitted>>

\* the promise executeTask(task) returned settles (lines 94-102, 56-57)
ExecuteTaskSettles(t, ok) ==
  /\ tstate[t] = "running"
  /\ tstate' = [tstate EXCEPT ![t] = "settled"]
  /\ outcome' = [outcome EXCEPT ![t] = IF ok THEN "ok" ELSE "fail"]
  /\ microtasks' = Append(microtasks, <<t, IF ok THEN "then" ELSE "pass">>)
  /\ UNCHANGED <<concurrency, tasks, running, results, errors, completed,
                 tkind, starts, submitted, runpc, raceSet, thrownCount>>

\* a task the caller added settles
TaskSettle(t, ok) ==
  /\ ExecuteTaskSettles(t, ok)
  /\ UNCHANGED <<httpVars, cacheVars, utilVars>>

\* the next promise reaction runs: the .then callback (lines 57-64), the
\* rejection passing through .then, or the .catch callback (lines 65-72)
Reaction ==
  /\ microtasks # <<>>
  /\ LET t    == Head(microtasks)[1]
         what == Head(microtasks)[2]
     IN  \/ /\ what = "then"
            /\ results' = Append(results, ValueOf(t))
            /\ running' = RemoveFirst(running, t)
            /\ tstate' = [tstate EXCEPT ![t] = "done"]
            /\ microtasks' = Tail(microtasks)
            /\ UNCHANGED errors
         \/ /\ what = "pass"
            /\ microtasks' = Append(Tail(microtasks), <<t, "catch">>)
            /\ UNCHANGED <<results, errors, running, tstate>>
         \/ /\ what = "catch"
            /\ errors' = Append(errors, ErrorOf(t))
            /\ running' = RemoveFirst(running, t)
            /\ tstate' = [tstate EXCEPT ![t] = "done"]
            /\ microtasks' = Tail(microtasks)
            /\ UNCHANGED results
  /\ UNCHANGED <<httpVars, cacheVars, utilVars>>
  /\ UNCHANGED <<concurrency, tasks, completed, tkind, outcome, starts,
                 submitted, runpc, raceSet, thrownCount>>

(***************************************************************************)
(* HttpClient and BatchedRequestManager                                    *)
(*                                                                         *)
(* A request() call, an executeBatch() call and every continuation after   *)
(* an await run to their next suspension without interleaving, and one     *)
(* method calls another inside such a stretch (request -> executeBatch ->  *)
(* httpClient.request). The methods are therefore written as operators     *)
(* from a record of the mutable fields to the record after the stretch;    *)
(* an action commits the record its stretch ends with.                     *)
(***************************************************************************)
Hosts == {u[1] : u \in Urls}

\* hostKey = `${parsedUrl.protocol}//${parsedUrl.host}` (line 260)
HostKey(url) == url[1]

\* JSON.stringify(options): the properties in insertion order, in braces
Stringify(o) == <<"{", o, "}">>

\* cacheKey = `${url}-${JSON.stringify(options)}` (line 516)
CacheKey(url, o) == <<url[1], url[2], "-", Stringify(o)>>

Keys == {CacheKey(u, o) : u \in Urls, o \in Options}

\* the time the clock advances by in one step
TimeStep == ReuseWindow \div StepsPerWindow

\* the mutable fields, as one record
Fields ==
  [poolKeys |-> poolKeys, connections |-> connections, pending |-> pending,
   inUse |-> inUse, lastUsed |-> lastUsed, transport |-> transport,
   destroyed |-> destroyed, orphaned |-> orphaned, closes |-> closes,
   calledIdle |-> calledIdle,
   pendingRequests |-> pendingRequests, requestCache |-> requestCache,
   cstate |-> cstate, follows |-> follows, creq |-> creq,
   rpc |-> rpc, rhost |-> rhost, held |-> held, deadline |-> deadline,
   rout |-> rout, made |-> made, createQ |-> createQ,
   estate |-> estate, ereq |-> ereq, batchOf |-> batchOf,
   innerFollows |-> innerFollows, eout |-> eout, cleared |-> cleared,
   flushTimers |-> flushTimers, freshTimers |-> freshTimers]

Commit(s) ==
  /\ poolKeys' = s.poolKeys /\ connections' = s.connections
  /\ pending' = s.pending /\ inUse' = s.inUse /\ lastUsed' = s.lastUsed
  /\ transport' = s.transport /\ destroyed' = s.destroyed
  /\ orphaned' = s.orphaned /\ closes' = s.closes
  /\ calledIdle' = s.calledIdle
  /\ pendingRequests' = s.pendingRequests /\ requestCache' = s.requestCache
  /\ cstate' = s.cstate /\ follows' = s.follows /\ creq' = s.creq
  /\ rpc' = s.rpc /\ rhost' = s.rhost /\ held' = s.held
  /\ deadline' = s.deadline /\ rout' = s.rout /\ made' = s.made
  /\ createQ' = s.createQ /\ estate' = s.estate /\ ereq' = s.ereq
  /\ batchOf' = s.batchOf /\ innerFollows' = s.innerFollows
  /\ eout' = s.eout /\ cleared' = s.cleared
  /\ flushTimers' = s.flushTimers /\ freshTimers' = s.freshTimers
  /\ UNCHANGED <<enableBatching, maxConnectionsPerHost, useHttp2,
                 maxBatchSize, throwsFor>>
  /\ UNCHANGED <<tqVars, cacheVars, utilVars>>

\* HttpClient and BatchedRequestManager constructors (lines 243-251,
\* 506-512), with batching on or off, the per-host ceiling m, the batch
\* size mb and HTTP/2 allowed or not. The client the manager is built
\* over (line 507) is an HttpClient, or an object around one whose
\* request() throws at once for the host keys in H.
ManagerConstructed(b, m, mb, h2, H) ==
  /\ enableBatching = b
  /\ throwsFor = H
  /\ maxConnectionsPerHost = m
  /\ useHttp2 = h2
  /\ maxBatchSize = mb
  /\ poolKeys = {}
  /\ connections = [h \in Hosts |-> <<>>]
  /\ pending = [h \in Hosts |-> <<>>]
  /\ inUse = [e \in CallIds |-> FALSE]
  /\ lastUsed = [e \in CallIds |-> 0]
  /\ transport = [e \in CallIds |-> "none"]
  /\ destroyed = {}
  /\ orphaned = {}
  /\ closes = 0
  /\ calledIdle = {}
  /\ pendingRequests = <<>>
  /\ requestCache = [k \in Keys |-> 0]
  /\ now = 0
  /\ cstate = [c \in CallIds |-> "new"]
  /\ follows = [c \in CallIds |-> 0]
  /\ creq = [c \in CallIds |-> <<>>]
  /\ rpc = [c \in CallIds |-> "none"]
  /\ rhost = [c \in CallIds |-> "none"]
  /\ held = [c \in CallIds |-> 0]
  /\ deadline = [c \in CallIds |-> 0]
  /\ rout = [c \in CallIds |-> "none"]
  /\ made = [c \in CallIds |-> FALSE]
  /\ createQ = <<>>
  /\ estate = [c \in CallIds |-> "none"]
  /\ ereq = [c \in CallIds |-> <<>>]
  /\ batchOf = [c \in CallIds |-> 0]
  /\ innerFollows = [c \in CallIds |-> 0]
  /\ eout = [c \in CallIds |-> <<>>]
  /\ cleared = [c \in CallIds |-> 0]
  /\ flushTimers = 0
  /\ freshTimers = 0

\* the same over HttpClient objects, whose request() is an async function
\* (line 253) and never throws at once
HttpClientConstructed(b, m, mb, h2) == ManagerConstructed(b, m, mb, h2, {})

(***************************************************************************)
(* The connection pool: HttpClient.request without batching                *)
(***************************************************************************)
\* a pool entry that getAvailableConnection would take although a request
\* is executing on it
IdleIgnoringInUse(s, e) == TRUE

\* !conn.inUse (line 316)
Idle(s, e) == ~s.inUse[e]

\* a reuse test without the age limit
WithinReuseWindowAlways(s, e) == TRUE

\* (now - conn.lastUsed) < 30000 (line 316)
WithinReuseWindow(s, e) == (now - s.lastUsed[e]) < ReuseWindow

\* getAvailableConnection (lines 312-320): the first entry, in array order,
\* that is idle and inside the reuse window; 0 for undefined
GetAvailableConnection(s, h) ==
  LET conns == s.connections[h]
      ok    == {i \in 1..Len(conns) :
                  Idle(s, conns[i]) /\ WithinReuseWindow(s, conns[i])}
  IN  IF ok = {} THEN 0
      ELSE conns[CHOOSE i \in ok : \A j \in ok : i <= j]

\* pool.connections.length < this.maxConnectionsPerHost (line 277)
UnderLimit(s, h) == Len(s.connections[h]) < maxConnectionsPerHost

\* no request of host h is creating a connection, waiting for one or
\* executing on one, and every entry of the host's pool is idle
NoneInFlight(s, h) ==
  /\ \A r \in CallIds :
       s.rhost[r] = h => s.rpc[r] \notin {"creating", "waiting", "requesting"}
  /\ h \in s.poolKeys => \A e \in Range(s.connections[h]) : ~s.inUse[e]

\* HttpClient.request from line 259 to its first suspension, for request q
\* to host key h: take an idle entry and call makeRequest (lines 273,
\* 295-302), or start createConnection (line 278), or join the wait list
\* (lines 287, 322-330).
PoolRequest(s, q, h) ==
  LET s1 == [s EXCEPT !.poolKeys = @ \cup {h}, !.rhost[q] = h,
                      !.calledIdle = IF NoneInFlight(s, h)
                                     THEN @ \cup {q} ELSE @]
      e  == GetAvailableConnection(s1, h)
  IN  IF e # 0
      THEN [s1 EXCEPT !.inUse[e] = TRUE, !.lastUsed[e] = now,
                      !.held[q] = e, !.rpc[q] = "requesting", !.made[q] = TRUE]
      ELSE IF UnderLimit(s1, h)
      THEN [s1 EXCEPT !.rpc[q] = "creating", !.createQ = Append(@, q)]
      ELSE [s1 EXCEPT !.pending[h] = Append(@, q),
                      !.deadline[q] = now + DefaultTimeout,
                      !.rpc[q] = "waiting"]

\* createConnection (lines 332-362): an http2 session when the module is
\* there, the URL is https, HTTP/2 is allowed and http2.connect does not
\* throw (h2ok); else a keep-alive agent
CreateConnection(h, h2ok) ==
  IF h2ok /\ h \in HttpsOrigins /\ useHttp2 THEN "http2" ELSE "agent"

\* pool.connections.push(poolConnection) (line 284) on the pool object the
\* request looked up at line 270: after a close() that object is no longer
\* the one in connectionPool, if any
PushConnection(s, q, h) ==
  IF q \in s.orphaned THEN s.connections[h] ELSE Append(s.connections[h], q)

\* the continuation after `await this.createConnection(parsedUrl)` (lines
\* 278-284, 302): the new entry is pushed and makeRequest is called. The
\* awaits of concurrent requests resume in the order they suspended.
CreateResume(h2ok) ==
  /\ createQ # <<>>
  /\ LET q == Head(createQ)
         h == rhost[q]
     IN  Commit([Fields EXCEPT !.createQ = Tail(@),
                               !.connections[h] = PushConnection(Fields, q, h),
                               !.transport[q] = CreateConnection(h, h2ok),
                               !.inUse[q] = TRUE, !.lastUsed[q] = now,
                               !.held[q] = q, !.rpc[q] = "requesting",
                               !.made[q] = TRUE])
  /\ UNCHANGED now

\* the timer of waitForAvailableConnection fires (lines 324-326): the
\* waiter's promise rejects and request() rejects with it, before its try
\* block. pool.pending is not touched.
WaitTimeout(q) ==
  /\ rpc[q] = "waiting"
  /\ now >= deadline[q]
  /\ Commit([Fields EXCEPT !.rpc[q] = "failed", !.rout[q] = "waitTimeout"])
  /\ UNCHANGED now

\* a finally block that runs only when makeRequest resolved
ReleaseOnSuccess(s, q, out) ==
  IF out = "ok" THEN [s EXCEPT !.inUse[s.held[q]] = FALSE] ELSE s

\* the finally block of request (lines 303-308): poolConnection.inUse =
\* false, whatever makeRequest settled with
Release(s, q, out) == [s EXCEPT !.inUse[s.held[q]] = FALSE]

\* makeRequest settles and the finally block runs (lines 300-309)
TransportSettle(q, out) ==
  /\ rpc[q] = "requesting"
  /\ Commit(Release([Fields EXCEPT
                       !.rpc[q] = IF out = "ok" THEN "done" ELSE "failed",
                       !.rout[q] = out], q, out))
  /\ UNCHANGED now

\* the entries of every pool in connectionPool
Pooled(s) == UNION {Range(s.connections[h]) : h \in s.poolKeys}

\* connection.agent && connection.agent.destroy (line 495)
Closable(s, e) == s.transport[e] = "agent"

\* close() (lines 491-501): the agents of the pooled entries are destroyed
\* and connectionPool is cleared. The requests suspended in
\* createConnection or on a wait list keep the pool object they looked up.
Close ==
  /\ closes < MaxCloses
  /\ Commit([Fields EXCEPT
       !.destroyed = @ \cup {e \in Pooled(Fields) : Closable(Fields, e)},
       !.poolKeys = {},
       !.connections = [h \in Hosts |-> <<>>],
       !.pending = [h \in Hosts |-> <<>>],
       !.orphaned = @ \cup {q \in CallIds : rpc[q] \in {"creating", "waiting"}},
       !.closes = @ + 1])
  /\ UNCHANGED now

\* time passes
TickUpTo(n) ==
  /\ now < n * TimeStep
  /\ now' = now + TimeStep
  /\ Commit(Fields)

Tick == TickUpTo(MaxSteps)

(***************************************************************************)
(* BatchedRequestManager                                                   *)
(***************************************************************************)
\* req.cacheKey of buffered entry e (lines 523-529)
EntryKey(s, e) == CacheKey(s.ereq[e][1], s.ereq[e][2])

\* a lookup that never finds the fingerprint
CachedEntryNone(s, key) == 0

\* requestCache.has(cacheKey) / requestCache.get(cacheKey) (lines 517-518)
CachedEntry(s, key) == s.requestCache[key]

\* this.httpClient.request(req.url, req.options) as called by executeBatch
\* for entry e (line 554). A client with batching enabled hands the call
\* back to this manager (lines 255-257), whose request() finds the
\* fingerprint in requestCache and returns the promise stored there (lines
\* 517-519); RequestCacheCoversBatch states that it always finds it.
\* A client without batching goes to the pool.
DispatchOne(s, e) ==
  IF enableBatching
  THEN [s EXCEPT !.innerFollows[e] = CachedEntry(s, EntryKey(s, e))]
  ELSE PoolRequest(s, e, HostKey(s.ereq[e][1]))

RECURSIVE Dispatch(_, _)
\* batch.map(req => this.httpClient.request(...)) (lines 553-557)
Dispatch(s, batch) ==
  IF batch = <<>> THEN s
  ELSE Dispatch(DispatchOne(s, Head(batch)), Tail(batch))

\* splice(0, this.maxBatchSize) (line 548)
BatchLength(s) == Min(maxBatchSize, Len(s.pendingRequests))

\* whether this.httpClient.request(req.url, req.options) throws at once for
\* entry e (line 554)
DispatchThrows(s, e) == HostKey(s.ereq[e][1]) \in throwsFor

\* a catch block that rejects the request whose dispatch threw and no other
CatchRejectsThrower(batch, thrower) == {thrower}

\* the requests the catch block rejects (line 572): the whole batch
CatchRejects(batch, thrower) == Range(batch)

\* requestCache.delete for the fingerprints of the entries in B (lines 568,
\* 574)
DeleteKeys(s, B) ==
  [s EXCEPT
     !.requestCache = [k \in Keys |->
                         IF \E e \in B : EntryKey(s, e) = k THEN 0 ELSE @[k]],
     !.cleared = [e \in CallIds |-> IF e \in B THEN @[e] + 1 ELSE @[e]]]

\* the catch block (lines 570-576) after the dispatch of `thrower` threw
CatchBlock(s, batch, thrower) ==
  LET R == CatchRejects(batch, thrower)
  IN  DeleteKeys([s EXCEPT
                    !.estate = [e \in CallIds |->
                                  IF e \in R THEN "rejected" ELSE @[e]],
                    !.eout = [e \in CallIds |->
                                IF e \in R THEN <<"thrown", thrower>> ELSE @[e]]],
                 Range(batch))

\* executeBatch up to `await Promise.all(promises)` (lines 545-559), or
\* through its catch block when batch.map stops at a request() that throws
ExecuteBatch(s) ==
  IF Len(s.pendingRequests) = 0 THEN s
  ELSE LET n     == BatchLength(s)
           batch == SubSeq(s.pendingRequests, 1, n)
           B     == Range(batch)
           s1    == [s EXCEPT
                       !.pendingRequests = SubSeq(@, n + 1, Len(@)),
                       !.estate = [e \in CallIds |->
                                     IF e \in B THEN "inflight" ELSE @[e]],
                       !.batchOf = [e \in CallIds |->
                                     IF e \in B THEN Head(batch) ELSE @[e]]]
           bad   == {i \in 1..n : DispatchThrows(s1, batch[i])}
       IN  IF bad = {} THEN Dispatch(s1, batch)
           ELSE LET i == CHOOSE j \in bad : \A k \in bad : j <= k
                IN  CatchBlock(Dispatch(s1, SubSeq(batch, 1, i - 1)),
                               batch, batch[i])

\* a test that arms the timer at the second buffered request
TimerDueAtTwo(s) == Len(s.pendingRequests) = 2

\* this.pendingRequests.length === 1 (line 535)
TimerDue(s) == Len(s.pendingRequests) = 1

\* BatchedRequestManager.request (lines 514-543) for caller c
ManagerRequest(s, c, url, o) ==
  LET key == CacheKey(url, o)
  IN  IF CachedEntry(s, key) # 0
      THEN [s EXCEPT !.follows[c] = CachedEntry(s, key),
                     !.creq[c] = <<url, o>>]
      ELSE LET s1 == [s EXCEPT !.pendingRequests = Append(@, c),
                               !.creq[c] = <<url, o>>,
                               !.estate[c] = "buffered",
                               !.ereq[c] = <<url, o>>,
                               !.requestCache[key] = c,
                               !.follows[c] = c,
                               !.freshTimers =
                                  IF Len(s.pendingRequests) = 0 THEN 0 ELSE @]
           IN  IF TimerDue(s1)
               THEN [s1 EXCEPT !.flushTimers = @ + 1, !.freshTimers = @ + 1]
               ELSE IF Len(s1.pendingRequests) >= maxBatchSize
               THEN ExecuteBatch(s1)
               ELSE s1

\* the caller's next call, in call order
NextCall(c) == cstate[c] = "new" /\ \A d \in CallIds : d < c => cstate[d] # "new"

\* HttpClient.request(url, options) called by caller c (lines 253-298)
ClientRequest(c, url, o) ==
  /\ NextCall(c)
  /\ LET s == [Fields EXCEPT !.cstate[c] = "called"]
     IN  IF enableBatching
         THEN Commit(ManagerRequest(s, c, url, o))
         ELSE Commit(PoolRequest(s, c, HostKey(url)))
  /\ UNCHANGED now

\* request(url, options) called by caller c on a BatchedRequestManager the
\* program built over a client that does not batch by itself
ManagerCall(c, url, o) ==
  /\ ~enableBatching
  /\ NextCall(c)
  /\ Commit(ManagerRequest([Fields EXCEPT !.cstate[c] = "called"], c, url, o))
  /\ UNCHANGED now

\* a flush timer fires (line 537): the one armed first, all timers having
\* the same delay
FlushTimer ==
  /\ flushTimers > 0
  /\ Commit(ExecuteBatch([Fields EXCEPT
               !.flushTimers = @ - 1,
               !.freshTimers = IF flushTimers > @ THEN @ ELSE @ - 1]))
  /\ UNCHANGED now

\* whether the promise httpClient.request returned for entry e has settled,
\* and how
InnerSettled(e) ==
  IF enableBatching
  THEN innerFollows[e] # 0 /\ estate[innerFollows[e]] \in {"resolved", "rejected"}
  ELSE rpc[e] \in {"done", "failed"}

InnerOutcome(e) ==
  IF enableBatching THEN eout[innerFollows[e]] ELSE <<rout[e], e>>

BatchMembers(b) == {e \in CallIds : batchOf[e] = b /\ estate[e] = "inflight"}

\* a flush that fails as a whole when one of its requests failed
SettledAsFirstFailure(B, e) ==
  LET F == {f \in B : InnerOutcome(f)[1] # "ok"}
  IN  IF F = {} THEN InnerOutcome(e)
      ELSE InnerOutcome(CHOOSE f \in F : \A g \in F : f <= g)

\* what entry e of the flush B settles with: the row its own promise
\* produced (lines 555-556, 563-567)
SettledAs(B, e) == InnerOutcome(e)

\* a loop that leaves the fingerprints in requestCache
ClearedAfterFlushNone(B) == {}

\* the entries whose fingerprint the loop deletes (line 568)
ClearedAfterFlush(B) == B

\* Promise.all(promises) has resolved for the flush that detached b and the
\* loop settles every entry of that flush (lines 559-569)
BatchComplete(b) ==
  /\ BatchMembers(b) # {}
  /\ \A e \in BatchMembers(b) : InnerSettled(e)
  /\ LET B == BatchMembers(b)
     IN  Commit(DeleteKeys([Fields EXCEPT
           !.estate = [e \in CallIds |->
                         IF e \in B
                         THEN IF SettledAs(B, e)[1] = "ok"
                              THEN "resolved" ELSE "rejected"
                         ELSE @[e]],
           !.eout = [e \in CallIds |-> IF e \in B THEN SettledAs(B, e) ELSE @[e]]],
           ClearedAfterFlush(B)))
  /\ UNCHANGED now


(***************************************************************************)
(* LRUCache (cache.js lines 11-57)                                         *)
(*                                                                         *)
(* Its methods are synchronous. They are written as operators on the       *)
(* record of the two collections, so that PackageCache can apply them      *)
(* inside its own steps.                                                   *)
(***************************************************************************)
\* Set.prototype.delete(k), on the Set's insertion order
OrderDelete(order, k) == SelectSeq(order, LAMBDA x : x # k)

\* Set.prototype.add(k): a key already present keeps its place
OrderAdd(order, k) == IF k \in Range(order) THEN order ELSE Append(order, k)

\* the two collections of the cache, as one record
Memory == [cache |-> cache, accessOrder |-> accessOrder]

\* has(key) (lines 40-42)
LRUHas(m, k) == m.cache[k] # Absent

\* size() (lines 54-56)
LRUSize(m) == Cardinality({k \in CacheKeys : m.cache[k] # Absent})

\* get(key) (lines 18-26): the value returned, and the cache afterwards
LRUGetValue(m, k) == IF LRUHas(m, k) THEN m.cache[k] ELSE JUndefined

LRUGet(m, k) ==
  IF LRUHas(m, k)
  THEN [m EXCEPT !.accessOrder = OrderAdd(OrderDelete(m.accessOrder, k), k)]
  ELSE m

\* an eviction test that lets the cache grow one entry past maxSize
EvictionDueLate(m) == LRUSize(m) > maxSize

\* the eviction test of set (line 30)
EvictionDue(m) == LRUSize(m) >= maxSize

\* lines 31-33: accessOrder.values().next().value is the first key of the
\* Set; both deletes are no-ops when the Set is empty
EvictOldest(m) ==
  IF m.accessOrder = <<>> THEN m
  ELSE LET oldestKey == Head(m.accessOrder)
       IN  [cache |-> [m.cache EXCEPT ![oldestKey] = Absent],
            accessOrder |-> OrderDelete(m.accessOrder, oldestKey)]

\* set(key, value) (lines 28-38)
LRUSet(m, k, v) ==
  LET e == IF EvictionDue(m) THEN EvictOldest(m) ELSE m
  IN  [cache |-> [e.cache EXCEPT ![k] = v],
       accessOrder |-> OrderAdd(e.accessOrder, k)]

\* a delete that forgets the Map
LRUDeleteOrderOnly(m, k) == [m EXCEPT !.accessOrder = OrderDelete(m.accessOrder, k)]

\* delete(key) (lines 44-47)
LRUDelete(m, k) ==
  [cache |-> [m.cache EXCEPT ![k] = Absent],
   accessOrder |-> OrderDelete(m.accessOrder, k)]

\* clear() (lines 49-52)
LRUClear(m) == [cache |-> [k \in CacheKeys |-> Absent], accessOrder |-> <<>>]

\* no key
NoKey == "none"

\* constructor (lines 12-16)
LRUCacheConstructed(n) ==
  /\ maxSize = n
  /\ cache = [k \in CacheKeys |-> Absent]
  /\ accessOrder = <<>>
  /\ touched = <<>>
  /\ onlyGetSet = TRUE
  /\ lastHit = NoKey

\* a caller touches key k: it becomes the most recently touched
Touch(k) == Append(OrderDelete(touched, k), k)

\* a caller calls get(key)
GetCall(k) ==
  /\ touched' = IF LRUHas(Memory, k) THEN Touch(k) ELSE touched
  /\ cache' = LRUGet(Memory, k).cache
  /\ accessOrder' = LRUGet(Memory, k).accessOrder
  /\ lastHit' = IF LRUHas(Memory, k) THEN k ELSE NoKey
  /\ UNCHANGED <<maxSize, onlyGetSet>>
  /\ UNCHANGED <<tqVars, httpVars, fileVars, callVars, utilVars>>

\* a caller calls set(key, value)
SetCall(k, v) ==
  /\ touched' = Touch(k)
  /\ cache' = LRUSet(Memory, k, v).cache
  /\ accessOrder' = LRUSet(Memory, k, v).accessOrder
  /\ lastHit' = NoKey
  /\ UNCHANGED <<maxSize, onlyGetSet>>
  /\ UNCHANGED <<tqVars, httpVars, fileVars, callVars, utilVars>>

\* a caller calls delete(key)
DeleteCall(k) ==
  /\ cache' = LRUDelete(Memory, k).cache
  /\ accessOrder' = LRUDelete(Memory, k).accessOrder
  /\ onlyGetSet' = FALSE
  /\ lastHit' = NoKey
  /\ UNCHANGED <<maxSize, touched>>
  /\ UNCHANGED <<tqVars, httpVars, fileVars, callVars, utilVars>>

\* a caller calls clear()
ClearCall ==
  /\ cache' = LRUClear(Memory).cache
  /\ accessOrder' = LRUClear(Memory).accessOrder
  /\ onlyGetSet' = FALSE
  /\ lastHit' = NoKey
  /\ UNCHANGED <<maxSize, touched>>
  /\ UNCHANGED <<tqVars, httpVars, fileVars, callVars, utilVars>>

(***************************************************************************)
(* JSON.stringify and JSON.parse, on the values above. A text is the       *)
(* sequence of its tokens.                                                 *)
(***************************************************************************)
Digits == {ToString(n) : n \in 0..9}
DigitValue(tok) == CHOOSE n \in 0..9 : ToString(n) = tok

SyntaxError == <<"SyntaxError">>

\* what is left of {"x":1} by a write that stopped half way
Truncated == <<"{", "\"", "x">>

\* a serializer that writes a string without its quotes
JSONStringifyUnquoted(v) ==
  CASE v = JNull       -> <<"null">>
    [] v[1] = "bool"   -> IF v[2] THEN <<"true">> ELSE <<"false">>
    [] v[1] = "num"    -> <<ToString(v[2])>>
    [] v[1] = "str"    -> <<v[2]>>
    [] v[1] = "obj"    -> <<"{", "\"", v[2], "\"", ":", ToString(v[3][2]), "}">>

RECURSIVE JSONStringify(_)
JSONStringify(v) ==
  CASE v = JNull       -> <<"null">>
    [] v[1] = "bool"   -> IF v[2] THEN <<"true">> ELSE <<"false">>
    [] v[1] = "num"    -> <<ToString(v[2])>>
    [] v[1] = "str"    -> <<"\"", v[2], "\"">>
    [] v[1] = "obj"    -> <<"{", "\"", v[2], "\"", ":">> \o JSONStringify(v[3]) \o <<"}">>

RECURSIVE JSONParse(_)
JSONParse(t) ==
  CASE t = <<"null">>  -> JNull
    [] t = <<"true">>  -> JTrue
    [] t = <<"false">> -> JFalse
    [] Len(t) = 1 /\ t[1] \in Digits -> <<"num", DigitValue(t[1])>>
    [] Len(t) = 3 /\ t[1] = "\"" /\ t[3] = "\"" -> <<"str", t[2]>>
    [] Len(t) >= 7 /\ t[1] = "{" /\ t[2] = "\"" /\ t[4] = "\"" /\ t[5] = ":"
         /\ t[Len(t)] = "}" ->
         LET inner == JSONParse(SubSeq(t, 6, Len(t) - 1))
         IN  IF inner = SyntaxError THEN SyntaxError ELSE <<"obj", t[3], inner>>
    [] OTHER -> SyntaxError

(***************************************************************************)
(* FileCache (cache.js lines 59-132) and PackageCache (lines 134-187)      *)
(*                                                                         *)
(* Every fs call is awaited: the stretch of a method up to its next fs     *)
(* call is one step, and the fs call takes effect in the step that         *)
(* resumes the method. The disk fails reads and writes at will; unlink     *)
(* fails only for a file that is not there.                                *)
(***************************************************************************)
\* the keys the callers of FileCache and PackageCache use
FileKeys == {"a", "b"}

\* sanitizeKey (lines 128-131): the md5 digest of the key, in hex, + '.json'
SanitizeKey(k) == <<"md5", k, ".json">>

Paths == {SanitizeKey(k) : k \in CacheKeys}

NoFile == [exists |-> FALSE, data |-> <<>>, mtime |-> 0]


\* the mutable fields of the caches and their calls, as one record
CFields ==
  [cache |-> cache, accessOrder |-> accessOrder, dirExists |-> dirExists,
   files |-> files, cop |-> cop, ckey |-> ckey, cval |-> cval, cpc |-> cpc,
   cres |-> cres, cfileTier |-> cfileTier, cage |-> cage,
   cunlink |-> cunlink, cfault |-> cfault, cprior |-> cprior,
   cdoneAtEnd |-> cdoneAtEnd, clearedSince |-> clearedSince,
   cafterClear |-> cafterClear]

CCommit(s) ==
  /\ cache' = s.cache /\ accessOrder' = s.accessOrder
  /\ dirExists' = s.dirExists /\ files' = s.files
  /\ cop' = s.cop /\ ckey' = s.ckey /\ cval' = s.cval /\ cpc' = s.cpc
  /\ cres' = s.cres /\ cfileTier' = s.cfileTier /\ cage' = s.cage
  /\ cunlink' = s.cunlink /\ cfault' = s.cfault
  /\ cprior' = s.cprior /\ cdoneAtEnd' = s.cdoneAtEnd
  /\ clearedSince' = s.clearedSince /\ cafterClear' = s.cafterClear
  /\ UNCHANGED <<maxSize, touched, onlyGetSet, lastHit, ttl, cnow, warned>>
  /\ UNCHANGED <<tqVars, httpVars, utilVars>>

\* FileCache constructor (lines 60-64) with ttl t, over a directory that
\* exists or not and the files an earlier process left in it; no call
\* has been made
FileCacheConstructed(t, dir, left) ==
  /\ ttl = t
  /\ dirExists = dir
  /\ files = left
  /\ cnow = 0
  /\ warned = {}
  /\ cop = [c \in CallIds |-> "none"]
  /\ ckey = [c \in CallIds |-> "a"]
  /\ cval = [c \in CallIds |-> JUndefined]
  /\ cpc = [c \in CallIds |-> "new"]
  /\ cres = [c \in CallIds |-> <<"pending">>]
  /\ cfileTier = [c \in CallIds |-> FALSE]
  /\ cage = [c \in CallIds |-> -1]
  /\ cunlink = [c \in CallIds |-> "none"]
  /\ cfault = [c \in CallIds |-> "none"]
  /\ cprior = [c \in CallIds |-> {}]
  /\ cdoneAtEnd = [c \in CallIds |-> {}]
  /\ clearedSince = {}
  /\ cafterClear = [c \in CallIds |-> {}]

SettledCalls(s) == {c \in CallIds : s.cpc[c] = "done"}

\* calls are made in the order of their ids
NextCacheCall(c) ==
  /\ cop[c] = "none"
  /\ \A d \in CallIds : d < c => cop[d] # "none"

\* call c is made: method op, key k, value v
Begin(s, c, op, k, v) ==
  [s EXCEPT !.cop[c] = op, !.ckey[c] = k, !.cval[c] = v,
            !.cprior[c] = SettledCalls(s),
            !.cafterClear[c] = s.clearedSince]

\* the promise of call c settles
Finish(s, c, res) ==
  [s EXCEPT !.cpc[c] = "done", !.cres[c] = res,
            !.cdoneAtEnd[c] = SettledCalls(s)]

MemoryOf(s) == [cache |-> s.cache, accessOrder |-> s.accessOrder]

WithMemory(s, m) == [s EXCEPT !.cache = m.cache, !.accessOrder = m.accessOrder]

\* a freshness test that still serves an entry whose age is exactly ttl
FreshInclusive(age) == age <= ttl

\* the freshness test of FileCache.get (line 81)
Fresh(age) == age < ttl

\* the catch block of FileCache.get that lets the error escape
CatchRethrows == <<"threw", "error">>

\* the catch block of FileCache.get (lines 88-91): what get returns when
\* fs.stat, fs.readFile, JSON.parse or fs.unlink threw
CatchReturns == <<"returned", JNull>>

\* the promotion of a file-tier hit (line 154)
Promote(m, k, v) == LRUSet(m, k, v)

\* FileCache.get settled with `res` for call c: for a FileCache caller
\* that is the call's result; PackageCache.get goes on (lines 151-158)
FileGetReturns(s, c, res) ==
  IF s.cop[c] = "fget" THEN Finish(s, c, res)
  ELSE IF res[1] = "threw" THEN Finish(s, c, res)
  ELSE IF res[2] # JNull
       THEN Finish(WithMemory(s, Promote(MemoryOf(s), s.ckey[c], res[2])), c, res)
       ELSE Finish(s, c, <<"returned", JNull>>)

\* FileCache.set settled for call c: PackageCache.set awaits it and
\* nothing else (line 164); resolved, both return undefined
FileSetReturns(s, c, res) == Finish(s, c, res)

\* FileCache.delete returned b for call c (lines 120-125); PackageCache
\* .delete drops it and returns undefined (line 179)
FileDeleteReturns(s, c, b) ==
  IF s.cop[c] = "fdelete" THEN Finish(s, c, <<"returned", b>>)
  ELSE Finish(s, c, <<"returned", JUndefined>>)

\* PackageCache.get(key) is called (lines 143-151)
PGetCall(c, k) ==
  /\ NextCacheCall(c)
  /\ LET s == Begin(CFields, c, "get", k, JUndefined)
         value == LRUGetValue(Memory, k)
         t == WithMemory(s, LRUGet(Memory, k))
     IN  IF value # JUndefined
         THEN CCommit(Finish(t, c, <<"returned", value>>))
         ELSE CCommit([t EXCEPT !.cpc[c] = "stat", !.cfileTier[c] = TRUE])

\* FileCache.get(key) is called (lines 74-78)
FGetCall(c, k) ==
  /\ NextCacheCall(c)
  /\ CCommit([Begin(CFields, c, "fget", k, JUndefined)
                EXCEPT !.cpc[c] = "stat", !.cfileTier[c] = TRUE])

\* fs.stat settles (lines 78-81, 88-91)
Stat(c) ==
  /\ cpc[c] = "stat"
  /\ LET f == files[SanitizeKey(ckey[c])]
         s == CFields
     IN  IF ~dirExists \/ ~f.exists
         THEN CCommit(FileGetReturns([s EXCEPT !.cfault[c] = "missing"], c, CatchReturns))
         ELSE LET age == cnow - f.mtime
              IN  CCommit([s EXCEPT !.cage[c] = age,
                                    !.cpc[c] = IF Fresh(age) THEN "read" ELSE "unlink"])

\* fs.readFile settles and the text is parsed (lines 82-83, 88-91)
ReadFile(c, fault) ==
  /\ cpc[c] = "read"
  /\ LET f == files[SanitizeKey(ckey[c])]
         s == CFields
     IN  IF fault
         THEN CCommit(FileGetReturns([s EXCEPT !.cfault[c] = "unreadable"], c, CatchReturns))
         ELSE IF ~f.exists
         THEN CCommit(FileGetReturns([s EXCEPT !.cfault[c] = "missing"], c, CatchReturns))
         ELSE IF JSONParse(f.data) = SyntaxError
         THEN CCommit(FileGetReturns([s EXCEPT !.cfault[c] = "malformed"], c, CatchReturns))
         ELSE CCommit(FileGetReturns(s, c, <<"returned", JSONParse(f.data)>>))

\* fs.unlink of an expired file settles (lines 86, 88-93)
ExpiredUnlink(c) ==
  /\ cpc[c] = "unlink"
  /\ LET p == SanitizeKey(ckey[c])
         s == CFields
     IN  IF files[p].exists
         THEN CCommit(FileGetReturns(
                [s EXCEPT !.files[p] = NoFile, !.cunlink[c] = "removed"],
                c, <<"returned", JNull>>))
         ELSE CCommit(FileGetReturns(
                [s EXCEPT !.cunlink[c] = "ENOENT"], c, CatchReturns))

\* PackageCache.set(key, value) is called (lines 161-164, 96-102)
PSetCall(c, k, v) ==
  /\ NextCacheCall(c)
  /\ LET s == Begin(CFields, c, "set", k, v)
     IN  CCommit([WithMemory(s, LRUSet(Memory, k, v))
                    EXCEPT !.cpc[c] = "access", !.cfileTier[c] = TRUE])

\* FileCache.set(key, value) is called (lines 96-102)
FSetCall(c, k, v) ==
  /\ NextCacheCall(c)
  /\ CCommit([Begin(CFields, c, "fset", k, v)
                EXCEPT !.cpc[c] = "access", !.cfileTier[c] = TRUE])

\* fs.access settles (lines 102-109)
Access(c, fault) ==
  /\ cpc[c] = "access"
  /\ LET s == CFields
     IN  IF fault
         THEN CCommit(FileSetReturns([s EXCEPT !.cfault[c] = "write"], c,
                                     <<"threw", "EACCES">>))
         ELSE CCommit([s EXCEPT !.cpc[c] = IF dirExists THEN "write" ELSE "mkdir"])

\* fs.mkdir settles (line 105)
Mkdir(c, fault) ==
  /\ cpc[c] = "mkdir"
  /\ LET s == CFields
     IN  IF fault
         THEN CCommit(FileSetReturns([s EXCEPT !.cfault[c] = "write"], c,
                                     <<"threw", "EACCES">>))
         ELSE CCommit([s EXCEPT !.dirExists = TRUE, !.cpc[c] = "write"])

\* fs.writeFile settles (line 110)
WriteFile(c, fault) ==
  /\ cpc[c] = "write"
  /\ LET p == SanitizeKey(ckey[c])
         s == CFields
     IN  IF fault \/ ~dirExists
         THEN CCommit(FileSetReturns([s EXCEPT !.cfault[c] = "write"], c,
                                     <<"threw", "ENOSPC">>))
         ELSE CCommit(FileSetReturns(
                [s EXCEPT !.files[p] = [exists |-> TRUE,
                                        data |-> JSONStringify(cval[c]),
                                        mtime |-> cnow]],
                c, <<"returned", JUndefined>>))

\* PackageCache.delete(key) is called (lines 176-179, 118-121)
PDeleteCall(c, k) ==
  /\ NextCacheCall(c)
  /\ LET s == Begin(CFields, c, "delete", k, JUndefined)
     IN  CCommit([WithMemory(s, LRUDelete(Memory, k))
                    EXCEPT !.cpc[c] = "funlink", !.cfileTier[c] = TRUE])

\* FileCache.delete(key) is called (lines 118-121)
FDeleteCall(c, k) ==
  /\ NextCacheCall(c)
  /\ CCommit([Begin(CFields, c, "fdelete", k, JUndefined)
                EXCEPT !.cpc[c] = "funlink", !.cfileTier[c] = TRUE])

\* fs.unlink of delete settles (lines 121-125)
DeleteUnlink(c) ==
  /\ cpc[c] = "funlink"
  /\ LET p == SanitizeKey(ckey[c])
         s == CFields
     IN  IF files[p].exists
         THEN CCommit(FileDeleteReturns(
                [s EXCEPT !.files[p] = NoFile, !.cunlink[c] = "removed"], c, JTrue))
         ELSE CCommit(FileDeleteReturns(
                [s EXCEPT !.cunlink[c] = "ENOENT"], c, JFalse))

\* a clear() that empties the file tier as well
PackageClearBothTiers(s) ==
  [WithMemory(s, LRUClear(MemoryOf(s))) EXCEPT !.files = [p \in Paths |-> NoFile]]

\* the body of PackageCache.clear (lines 182-186): memoryCache.clear() and
\* nothing else
PackageClear(s) == WithMemory(s, LRUClear(MemoryOf(s)))

\* PackageCache.clear() is called (lines 182-186): it has no await, and its
\* promise resolves with undefined
PClearCall ==
  CCommit([PackageClear(CFields) EXCEPT !.clearedSince = SettledCalls(CFields)])

\* time passes: one whole ttl, once
CacheTick ==
  /\ cnow < ttl
  /\ cnow' = cnow + ttl
  /\ UNCHANGED <<lruVars, callVars, ttl, dirExists, files, warned>>
  /\ UNCHANGED <<tqVars, httpVars, utilVars>>

(***************************************************************************)
(* parallelReduce (part_004 lines 195-215)                                 *)
(***************************************************************************)
\* JavaScript's a + b on numbers, undefined and NaN: a number only when
\* both operands are numbers
JsAdd(a, b) ==
  IF a[1] = "num" /\ b[1] = "num" THEN <<"num", a[2] + b[2]>> ELSE JNaN

\* Array.prototype.reduce(add, init) on an array of integers
RECURSIVE ArrayReduce(_, _)
ArrayReduce(arr, init) ==
  IF arr = <<>> THEN init
  ELSE ArrayReduce(Tail(arr), JsAdd(init, <<"num", Head(arr)>>))

\* the same fold on an array of values
RECURSIVE ValuesReduce(_, _)
ValuesReduce(vals, init) ==
  IF vals = <<>> THEN init
  ELSE ValuesReduce(Tail(vals), JsAdd(init, Head(vals)))

\* Math.ceil(a / b) for b >= 1
Ceil(a, b) == (a + b - 1) \div b

\* lines 200-206: the array cut into slices of chunkSize
Chunks(arr, k) ==
  LET chunkSize == Ceil(Len(arr), k)
      n == IF chunkSize = 0 THEN 0 ELSE Ceil(Len(arr), chunkSize)
  IN  [i \in 1..n |->
         SubSeq(arr, (i - 1) * chunkSize + 1, Min(i * chunkSize, Len(arr)))]

\* chunk reduces that each start from the caller's initial value
ChunkSeedInitial == <<"num", redInitial>>

\* the value each chunk's reduce starts from (line 210)
ChunkSeed == JUndefined

\* parallelReduce(array, add, initial, {concurrency: k}) has been called
ParallelReduceCalled(arr, initial, k) ==
  /\ redArray = arr
  /\ redInitial = initial
  /\ redK = k
  /\ redPc = "called"
  /\ chunkResults = <<>>
  /\ redResult = JUndefined

\* lines 198-211: the chunks are cut and each is reduced, up to the await
ReduceChunks ==
  /\ redPc = "called"
  /\ LET chunks == Chunks(redArray, redK)
     IN  chunkResults' = [i \in 1..Len(chunks) |-> ArrayReduce(chunks[i], ChunkSeed)]
  /\ redPc' = "awaiting"
  /\ UNCHANGED <<redArray, redInitial, redK, redResult>>
  /\ UNCHANGED <<tqVars, httpVars, cacheVars, mapVars, workerVars>>

\* lines 208-214: Promise.all resolves and the chunk results are folded
\* with the initial value
ReduceCombine ==
  /\ redPc = "awaiting"
  /\ redResult' = ValuesReduce(chunkResults, <<"num", redInitial>>)
  /\ redPc' = "done"
  /\ UNCHANGED <<redArray, redInitial, redK, chunkResults>>
  /\ UNCHANGED <<tqVars, httpVars, cacheVars, mapVars, workerVars>>

(***************************************************************************)
(* parallelMap (part_004 lines 168-186)                                    *)
(***************************************************************************)
\* what mapper(item, index, array) resolves with; index counts from 0
Mapper(item, index) == <<"mapped", item, index>>

\* a write of the result to the next slot that is still empty
WriteSlotNextFree(res, t, v) ==
  LET free == {i \in 1..Len(res) : res[i] = Hole}
  IN  [res EXCEPT ![CHOOSE i \in free : \A j \in free : i <= j] = v]

\* results[index] = result (line 179), for the task of the t-th item
WriteSlot(res, t, v) == [res EXCEPT ![t] = v]

\* parallelMap(array, mapper, options) has been called
ParallelMapCalled(arr) ==
  /\ pmArray = arr
  /\ pmResults = <<>>
  /\ pmPc = "called"

\* lines 169-184 up to the await: results is allocated, the queue is given
\* one task per item (add, lines 39-44, on a queue that is not completed)
\* and run() is called on it, which runs to its first suspension or, for an
\* empty array, to its end
MapStart ==
  /\ pmPc = "called"
  /\ ~AddRefuses
  /\ LET n   == Len(pmArray)
         ids == [i \in 1..n |-> i]
     IN  /\ pmResults' = [i \in 1..n |-> Hole]
         /\ submitted' = ids
         /\ RunBodyOn(1, ids, [t \in TaskIds |->
                                 IF t <= n THEN "queued" ELSE tstate[t]])
  /\ pmPc' = "awaiting"
  /\ UNCHANGED <<concurrency, tkind, pmArray>>
  /\ UNCHANGED <<httpVars, cacheVars, reduceVars, workerVars>>

\* the mapper's promise for the t-th item settles: the task stores the
\* result in its slot and returns it (lines 178-180), or rejects, and the
\* promise executeTask returned settles with it
MapperSettle(t, ok) ==
  /\ pmPc = "awaiting"
  /\ ExecuteTaskSettles(t, ok)
  /\ pmResults' = IF ok
                  THEN WriteSlot(pmResults, t, Mapper(pmArray[t], t - 1))
                  ELSE pmResults
  /\ UNCHANGED <<pmArray, pmPc>>
  /\ UNCHANGED <<httpVars, cacheVars, reduceVars, workerVars>>

\* `await queue.run()` is over (lines 184-185): parallelMap returns results
\* or rejects with run()'s error
MapReturn ==
  /\ pmPc = "awaiting"
  /\ runpc[1] \in {"resolved", "rejected"}
  /\ pmPc' = runpc[1]
  /\ UNCHANGED <<pmArray, pmResults>>
  /\ UNCHANGED <<tqVars, httpVars, cacheVars, reduceVars, workerVars>>

(***************************************************************************)
(* WorkerPool (part_004 lines 105-149) and Worker (lines 151-165)          *)
(***************************************************************************)
\* the mutable fields of the pool and of its callers, as one record
WFields ==
  [workers |-> workers, idleWorkers |-> idleWorkers, taskQueue |-> taskQueue,
   wkind |-> wkind, wstate |-> wstate, won |-> won, created |-> created,
   dpc |-> dpc]

WCommit(w) ==
  /\ workers' = w.workers /\ idleWorkers' = w.idleWorkers
  /\ taskQueue' = w.taskQueue /\ wkind' = w.wkind /\ wstate' = w.wstate
  /\ won' = w.won /\ created' = w.created /\ dpc' = w.dpc
  /\ UNCHANGED wconcurrency
  /\ UNCHANGED <<tqVars, httpVars, cacheVars, reduceVars, mapVars>>

\* constructor (lines 106-111)
WorkerPoolConstructed(c) ==
  /\ wconcurrency = c
  /\ workers = <<>>
  /\ idleWorkers = <<>>
  /\ taskQueue = <<>>
  /\ wkind = [t \in TaskIds |-> "function"]
  /\ wstate = [t \in TaskIds |-> "new"]
  /\ won = [t \in TaskIds |-> 0]
  /\ created = 0
  /\ dpc = [d \in DestroyIds |-> "idle"]

\* the early returns of processQueue (lines 121-122)
NothingToStart(w) ==
  \/ Len(w.taskQueue) = 0
  \/ Len(w.idleWorkers) = 0 /\ Len(w.workers) >= wconcurrency

\* processQueue (lines 120-141): it has no await and runs in one stretch.
\* The first queued task goes to the idle worker on top of the stack or to
\* a new Worker, whose execute() is called.
ProcessQueue(w) ==
  IF NothingToStart(w) THEN w
  ELSE LET t     == Head(w.taskQueue)
           reuse == Len(w.idleWorkers) > 0
           n     == Len(w.idleWorkers)
           wk    == IF reuse THEN w.idleWorkers[n] ELSE w.created + 1
       IN  [w EXCEPT
              !.taskQueue = Tail(@),
              !.idleWorkers = IF reuse THEN SubSeq(@, 1, n - 1) ELSE @,
              !.workers = IF reuse THEN @ ELSE Append(@, wk),
              !.created = IF reuse THEN @ ELSE @ + 1,
              !.wstate[t] = "executing",
              !.won[t] = wk]

\* execute(task) (lines 113-118), the caller's next call
WExecute(t, kind) ==
  /\ wstate[t] = "new"
  /\ \A u \in TaskIds : u < t => wstate[u] # "new"
  /\ WCommit(ProcessQueue([WFields EXCEPT !.wkind[t] = kind,
                                          !.wstate[t] = "queued",
                                          !.taskQueue = Append(@, t)]))

\* worker.execute(task) settles (lines 152-160: a task that is not a
\* function rejects), the caller's promise settles with it and the
\* .finally callback runs (lines 134-140)
WSettle(t, ok) ==
  /\ wstate[t] = "executing"
  /\ wkind[t] = "invalid" => ~ok
  /\ WCommit(ProcessQueue([WFields EXCEPT
               !.wstate[t] = IF ok THEN "resolved" ELSE "rejected",
               !.idleWorkers = Append(@, won[t])]))

\* destroy() is called (lines 143-144): every worker's destroy() is called,
\* which does nothing (lines 162-164), and the call awaits them
WDestroyCall(d) ==
  /\ dpc[d] = "idle"
  /\ \A e \in DestroyIds : e < d => dpc[e] # "idle"
  /\ WCommit([WFields EXCEPT !.dpc[d] = "awaiting"])

\* the continuation of destroy() (lines 145-147): the three arrays are
\* replaced by empty ones; the promises of the queued calls are left
\* pending
WDestroyResume(d) ==
  /\ dpc[d] = "awaiting"
  /\ WCommit([WFields EXCEPT
       !.dpc[d] = "done",
       !.workers = <<>>,
       !.idleWorkers = <<>>,
       !.taskQueue = <<>>,
       !.wstate = [t \in TaskIds |->
                     IF @[t] = "queued" THEN "dropped" ELSE @[t]]])
(***************************************************************************)
(* Specifications                                                          *)
(***************************************************************************)
\* options.maxConnectionsPerHost's default (line 244)
DefaultMaxConnections == 10

\* the batch sizes a BatchedRequestManager is built with
BatchSizes == {2, DefaultMaxBatchSize}

\* a TaskQueue of any concurrency, beside an untouched default client
InitTQ ==
  /\ \E c \in 1..MaxConcurrency : TaskQueueConstructed(c)
  /\ HttpClientConstructed(TRUE, DefaultMaxConnections, DefaultMaxBatchSize, TRUE)
  /\ LRUCacheConstructed(1)
  /\ FileCacheConstructed(DefaultFileCacheTTL, TRUE, [p \in Paths |-> NoFile])
  /\ ParallelReduceCalled(<<>>, 0, 1)
  /\ ParallelMapCalled(<<>>)
  /\ WorkerPoolConstructed(1)

NextTQ ==
  \/ \E t \in TaskIds, kind \in TaskKinds : Add(t, kind)
  \/ \E r \in RunIds : RunCall(r)
  \/ \E r \in RunIds : RunResume(r)
  \/ \E t \in TaskIds, ok \in BOOLEAN : TaskSettle(t, ok)
  \/ Reaction

SpecTQ == InitTQ /\ [][NextTQ]_vars

\* the same queue under the scheduling JavaScript guarantees: as long as a
\* promise reaction is queued, a suspended run() can resume or a started
\* task can settle, one of them happens
InternalTQ ==
  \/ Reaction
  \/ \E r \in RunIds : RunResume(r)
  \/ \E t \in TaskIds, ok \in BOOLEAN : TaskSettle(t, ok)

FairnessTQ == WF_vars(InternalTQ)

\* executeTask treats a function and an object with execute() alike (lines
\* 95-98): both are awaited and settle later; here every callable task is a
\* function
CallableOrNot == {"function", "invalid"}

NextTQFair ==
  \/ \E t \in TaskIds, kind \in CallableOrNot : Add(t, kind)
  \/ \E r \in RunIds : RunCall(r)
  \/ InternalTQ

SpecTQFair == InitTQ /\ [][NextTQFair]_vars /\ FairnessTQ

\* a client with batching disabled, used directly, with HTTP/2 allowed or
\* not
InitPool ==
  /\ TaskQueueConstructed(1)
  /\ LRUCacheConstructed(1)
  /\ FileCacheConstructed(DefaultFileCacheTTL, TRUE, [p \in Paths |-> NoFile])
  /\ ParallelReduceCalled(<<>>, 0, 1)
  /\ ParallelMapCalled(<<>>)
  /\ WorkerPoolConstructed(1)
  /\ \E m \in 1..MaxConnLimit, h2 \in BOOLEAN :
       HttpClientConstructed(FALSE, m, DefaultMaxBatchSize, h2)

NextPool ==
  \/ \E c \in CallIds, in \in Inputs : ClientRequest(c, in[1], in[2])
  \/ \E h2ok \in BOOLEAN : CreateResume(h2ok)
  \/ \E q \in CallIds : WaitTimeout(q)
  \/ \E q \in CallIds, out \in TransportOutcomes : TransportSettle(q, out)
  \/ Close
  \/ Tick

SpecPool == InitPool /\ [][NextPool]_vars

\* the same client watched for one time step more: long enough for an
\* entry to leave the reuse window and for a wait that began afterwards to
\* time out
NextPoolLate ==
  \/ \E c \in CallIds, in \in Inputs : ClientRequest(c, in[1], in[2])
  \/ \E h2ok \in BOOLEAN : CreateResume(h2ok)
  \/ \E q \in CallIds : WaitTimeout(q)
  \/ \E q \in CallIds, out \in TransportOutcomes : TransportSettle(q, out)
  \/ Close
  \/ TickUpTo(MaxSteps + 1)

SpecPoolLate == InitPool /\ [][NextPoolLate]_vars

\* a client in its default configuration (batching through its own manager,
\* built at line 250 with the default batch size), or a client with
\* batching disabled and a manager built over it
InitHttp ==
  /\ TaskQueueConstructed(1)
  /\ LRUCacheConstructed(1)
  /\ FileCacheConstructed(DefaultFileCacheTTL, TRUE, [p \in Paths |-> NoFile])
  /\ ParallelReduceCalled(<<>>, 0, 1)
  /\ ParallelMapCalled(<<>>)
  /\ WorkerPoolConstructed(1)
  /\ \E m \in 1..MaxConnLimit :
       \/ HttpClientConstructed(TRUE, m, DefaultMaxBatchSize, TRUE)
       \/ \E mb \in BatchSizes : HttpClientConstructed(FALSE, m, mb, TRUE)

NextHttp ==
  \/ \E c \in CallIds, in \in Inputs : ClientRequest(c, in[1], in[2])
  \/ \E c \in CallIds, in \in Inputs : ManagerCall(c, in[1], in[2])
  \/ \E h2ok \in BOOLEAN : CreateResume(h2ok)
  \/ \E q \in CallIds : WaitTimeout(q)
  \/ \E q \in CallIds, out \in TransportOutcomes : TransportSettle(q, out)
  \/ FlushTimer
  \/ \E b \in CallIds : BatchComplete(b)
  \/ Tick

SpecHttp == InitHttp /\ [][NextHttp]_vars

\* the batch sizes tried for a manager the program builds itself
ManagerBatchSizes == {1, 2, DefaultMaxBatchSize}

\* a BatchedRequestManager of any batch size over an HttpClient that does
\* not batch by itself
InitManager ==
  /\ TaskQueueConstructed(1)
  /\ LRUCacheConstructed(1)
  /\ FileCacheConstructed(DefaultFileCacheTTL, TRUE, [p \in Paths |-> NoFile])
  /\ ParallelReduceCalled(<<>>, 0, 1)
  /\ ParallelMapCalled(<<>>)
  /\ WorkerPoolConstructed(1)
  /\ \E m \in 1..MaxConnLimit, mb \in ManagerBatchSizes :
       HttpClientConstructed(FALSE, m, mb, TRUE)

NextManager ==
  \/ \E c \in CallIds, in \in Inputs : ManagerCall(c, in[1], in[2])
  \/ \E h2ok \in BOOLEAN : CreateResume(h2ok)
  \/ \E q \in CallIds : WaitTimeout(q)
  \/ \E q \in CallIds, out \in TransportOutcomes : TransportSettle(q, out)
  \/ FlushTimer
  \/ \E b \in CallIds : BatchComplete(b)
  \/ Tick

SpecManager == InitManager /\ [][NextManager]_vars

\* such a manager over a client object whose request() throws at once for
\* the URLs of some hosts
InitThrowingClient ==
  /\ TaskQueueConstructed(1)
  /\ LRUCacheConstructed(1)
  /\ FileCacheConstructed(DefaultFileCacheTTL, TRUE, [p \in Paths |-> NoFile])
  /\ ParallelReduceCalled(<<>>, 0, 1)
  /\ ParallelMapCalled(<<>>)
  /\ WorkerPoolConstructed(1)
  /\ \E m \in 1..MaxConnLimit, mb \in ManagerBatchSizes,
        H \in (SUBSET Hosts) \ {{}} :
       ManagerConstructed(FALSE, m, mb, TRUE, H)

SpecThrowingClient == InitThrowingClient /\ [][NextManager]_vars


\* an LRUCache of any capacity, used directly
InitLRU ==
  /\ TaskQueueConstructed(1)
  /\ HttpClientConstructed(TRUE, DefaultMaxConnections, DefaultMaxBatchSize, TRUE)
  /\ \E n \in 1..MaxCapacity : LRUCacheConstructed(n)
  /\ FileCacheConstructed(DefaultFileCacheTTL, TRUE, [p \in Paths |-> NoFile])
  /\ ParallelReduceCalled(<<>>, 0, 1)
  /\ ParallelMapCalled(<<>>)
  /\ WorkerPoolConstructed(1)

NextLRU ==
  \/ \E k \in LRUKeys : GetCall(k)
  \/ \E k \in LRUKeys, v \in CacheValues : SetCall(k, v)
  \/ \E k \in LRUKeys : DeleteCall(k)
  \/ ClearCall

SpecLRU == InitLRU /\ [][NextLRU]_vars

\* an LRUCache of two to MaxCapacity + 1 entries whose callers use one key
\* more than the largest capacity, call get and set only, and store 1
InitLRUWide ==
  /\ TaskQueueConstructed(1)
  /\ HttpClientConstructed(TRUE, DefaultMaxConnections, DefaultMaxBatchSize, TRUE)
  /\ \E n \in 2..(MaxCapacity + 1) : LRUCacheConstructed(n)
  /\ FileCacheConstructed(DefaultFileCacheTTL, TRUE, [p \in Paths |-> NoFile])
  /\ ParallelReduceCalled(<<>>, 0, 1)
  /\ ParallelMapCalled(<<>>)
  /\ WorkerPoolConstructed(1)

NextLRUWide ==
  \/ \E k \in CacheKeys : GetCall(k)
  \/ \E k \in CacheKeys : SetCall(k, JOne)

SpecLRUWide == InitLRUWide /\ [][NextLRUWide]_vars

\* what an earlier process may have left for a key: nothing, a fresh or an
\* expired entry, or a file that is not JSON
LeftFiles ==
  {NoFile,
   [exists |-> TRUE, data |-> JSONStringify(JObj), mtime |-> 0],
   [exists |-> TRUE, data |-> JSONStringify(JObj), mtime |-> 0 - DefaultFileCacheTTL],
   [exists |-> TRUE, data |-> Truncated, mtime |-> 0]}

\* the values the callers of FileCache and PackageCache store: they differ
\* by their JSON quoting only
StoredValues == {JOne, JStrOne}

\* a FileCache (lines 60-64) over a cache directory that may hold an entry
\* for key "a", used directly
InitFile ==
  /\ TaskQueueConstructed(1)
  /\ HttpClientConstructed(TRUE, DefaultMaxConnections, DefaultMaxBatchSize, TRUE)
  /\ LRUCacheConstructed(1)
  /\ \E left \in LeftFiles, dir \in BOOLEAN :
       /\ left.exists => dir
       /\ FileCacheConstructed(DefaultFileCacheTTL, dir,
            [p \in Paths |-> IF p = SanitizeKey("a") THEN left ELSE NoFile])
  /\ ParallelReduceCalled(<<>>, 0, 1)
  /\ ParallelMapCalled(<<>>)
  /\ WorkerPoolConstructed(1)

NextFile ==
  \/ \E c \in CallIds, k \in FileKeys : FGetCall(c, k)
  \/ \E c \in CallIds : Stat(c)
  \/ \E c \in CallIds, fault \in BOOLEAN : ReadFile(c, fault)
  \/ \E c \in CallIds : ExpiredUnlink(c)
  \/ \E c \in CallIds, k \in FileKeys, v \in StoredValues : FSetCall(c, k, v)
  \/ \E c \in CallIds, fault \in BOOLEAN : Access(c, fault)
  \/ \E c \in CallIds, fault \in BOOLEAN : Mkdir(c, fault)
  \/ \E c \in CallIds, fault \in BOOLEAN : WriteFile(c, fault)
  \/ \E c \in CallIds, k \in FileKeys : FDeleteCall(c, k)
  \/ \E c \in CallIds : DeleteUnlink(c)
  \/ CacheTick

SpecFile == InitFile /\ [][NextFile]_vars

\* a PackageCache (lines 135-141) whose memory tier holds one entry or
\* MaxCapacity entries, over such a directory
InitCache ==
  /\ TaskQueueConstructed(1)
  /\ HttpClientConstructed(TRUE, DefaultMaxConnections, DefaultMaxBatchSize, TRUE)
  /\ \E n \in {1, MaxCapacity} : LRUCacheConstructed(n)
  /\ \E left \in LeftFiles, dir \in BOOLEAN :
       /\ left.exists => dir
       /\ FileCacheConstructed(DefaultFileCacheTTL, dir,
            [p \in Paths |-> IF p = SanitizeKey("a") THEN left ELSE NoFile])
  /\ ParallelReduceCalled(<<>>, 0, 1)
  /\ ParallelMapCalled(<<>>)
  /\ WorkerPoolConstructed(1)

NextCache ==
  \/ \E c \in CallIds, k \in FileKeys : PGetCall(c, k)
  \/ \E c \in CallIds : Stat(c)
  \/ \E c \in CallIds, fault \in BOOLEAN : ReadFile(c, fault)
  \/ \E c \in CallIds : ExpiredUnlink(c)
  \/ \E c \in CallIds, k \in FileKeys, v \in StoredValues : PSetCall(c, k, v)
  \/ \E c \in CallIds, fault \in BOOLEAN : Access(c, fault)
  \/ \E c \in CallIds, fault \in BOOLEAN : Mkdir(c, fault)
  \/ \E c \in CallIds, fault \in BOOLEAN : WriteFile(c, fault)
  \/ \E c \in CallIds, k \in FileKeys : PDeleteCall(c, k)
  \/ \E c \in CallIds : DeleteUnlink(c)
  \/ CacheTick

SpecCache == InitCache /\ [][NextCache]_vars

\* a PackageCache of MaxCapacity memory entries over an existing cache
\* directory that holds no entry yet, whose callers call get, set and clear
\* and store one object
InitClear ==
  /\ TaskQueueConstructed(1)
  /\ HttpClientConstructed(TRUE, DefaultMaxConnections, DefaultMaxBatchSize, TRUE)
  /\ LRUCacheConstructed(MaxCapacity)
  /\ FileCacheConstructed(DefaultFileCacheTTL, TRUE, [p \in Paths |-> NoFile])
  /\ ParallelReduceCalled(<<>>, 0, 1)
  /\ ParallelMapCalled(<<>>)
  /\ WorkerPoolConstructed(1)

NextClear ==
  \/ \E c \in CallIds, k \in FileKeys : PGetCall(c, k)
  \/ \E c \in CallIds : Stat(c)
  \/ \E c \in CallIds, fault \in BOOLEAN : ReadFile(c, fault)
  \/ \E c \in CallIds : ExpiredUnlink(c)
  \/ \E c \in CallIds, k \in FileKeys : PSetCall(c, k, JObj)
  \/ \E c \in CallIds, fault \in BOOLEAN : Access(c, fault)
  \/ \E c \in CallIds, fault \in BOOLEAN : WriteFile(c, fault)
  \/ PClearCall
  \/ CacheTick

SpecClear == InitClear /\ [][NextClear]_vars

\* the arrays of integers of length up to n
RECURSIVE ArraysUpTo(_)
ArraysUpTo(n) ==
  IF n = 0 THEN {<<>>}
  ELSE ArraysUpTo(n - 1) \cup
       {Append(a, x) : a \in {b \in ArraysUpTo(n - 1) : Len(b) = n - 1}, x \in ReduceInts}

\* one call of parallelReduce with integer addition, on any array, initial
\* value and concurrency
InitReduce ==
  /\ TaskQueueConstructed(1)
  /\ HttpClientConstructed(TRUE, DefaultMaxConnections, DefaultMaxBatchSize, TRUE)
  /\ LRUCacheConstructed(1)
  /\ FileCacheConstructed(DefaultFileCacheTTL, TRUE, [p \in Paths |-> NoFile])
  /\ \E arr \in ArraysUpTo(MaxLen), initial \in ReduceInts, k \in 1..MaxConcurrency :
       ParallelReduceCalled(arr, initial, k)
  /\ ParallelMapCalled(<<>>)
  /\ WorkerPoolConstructed(1)

NextReduce ==
  \/ ReduceChunks
  \/ ReduceCombine

SpecReduce == InitReduce /\ [][NextReduce]_vars

\* the arrays of items of length up to n
RECURSIVE ItemArraysUpTo(_)
ItemArraysUpTo(n) ==
  IF n = 0 THEN {<<>>}
  ELSE ItemArraysUpTo(n - 1) \cup
       {Append(a, x) : a \in {b \in ItemArraysUpTo(n - 1) : Len(b) = n - 1},
                       x \in MapItems}

\* one call of parallelMap on any array, with any concurrency, whose
\* mapper calls settle in any order and may fail
InitMap ==
  /\ \E c \in 1..MaxConcurrency : TaskQueueConstructed(c)
  /\ HttpClientConstructed(TRUE, DefaultMaxConnections, DefaultMaxBatchSize, TRUE)
  /\ LRUCacheConstructed(1)
  /\ FileCacheConstructed(DefaultFileCacheTTL, TRUE, [p \in Paths |-> NoFile])
  /\ ParallelReduceCalled(<<>>, 0, 1)
  /\ \E arr \in ItemArraysUpTo(MaxTasks) : ParallelMapCalled(arr)
  /\ WorkerPoolConstructed(1)

NextMap ==
  \/ MapStart
  \/ \E r \in RunIds : RunResume(r)
  \/ \E t \in TaskIds, ok \in BOOLEAN : MapperSettle(t, ok)
  \/ Reaction
  \/ MapReturn

SpecMap == InitMap /\ [][NextMap]_vars

\* a WorkerPool of any concurrency
InitWorkers ==
  /\ TaskQueueConstructed(1)
  /\ HttpClientConstructed(TRUE, DefaultMaxConnections, DefaultMaxBatchSize, TRUE)
  /\ LRUCacheConstructed(1)
  /\ FileCacheConstructed(DefaultFileCacheTTL, TRUE, [p \in Paths |-> NoFile])
  /\ ParallelReduceCalled(<<>>, 0, 1)
  /\ ParallelMapCalled(<<>>)
  /\ \E c \in 1..MaxConcurrency : WorkerPoolConstructed(c)

NextWorkers ==
  \/ \E t \in TaskIds, kind \in CallableOrNot : WExecute(t, kind)
  \/ \E t \in TaskIds, ok \in BOOLEAN : WSettle(t, ok)
  \/ \E d \in DestroyIds : WDestroyCall(d)
  \/ \E d \in DestroyIds : WDestroyResume(d)

SpecWorkers == InitWorkers /\ [][NextWorkers]_vars
(***************************************************************************)
(* Properties of the TaskQueue                                             *)
(***************************************************************************)
InFlight == {t \in TaskIds : tstate[t] = "running"}
Failed == {t \in TaskIds : outcome[t] = "fail"}
Settled(r) == runpc[r] \in {"resolved", "rejected"}

\* C7: at every instant at most `concurrency` tasks are started and not yet
\* settled, and running.length never exceeds `concurrency`.
C7_RunningWithinConcurrency ==
  /\ Len(running) <= concurrency
  /\ Cardinality(InFlight) <= concurrency

\* C7 witness: a run() is suspended with the ceiling reached, every slot
\* holding a task that has not settled, and more tasks still queued.
C7_Witness ==
  /\ \E r \in RunIds : runpc[r] = "awaiting"
  /\ Cardinality(InFlight) = concurrency
  /\ Len(tasks) > 0

\* C8 (as claimed): when run() resolves, the returned array has one element
\* per submitted task and its i-th element is the i-th submitted task's
\* result.
C8_ResultsInSubmissionOrder ==
  \A r \in RunIds :
    runpc[r] = "resolved" =>
      results = [i \in 1..Len(submitted) |-> ValueOf(submitted[i])]

\* C9: run() never resolves when a task failed; when it rejects, every
\* submitted task has been started once and has settled (a failure stopped
\* no sibling), the errors list holds exactly one entry per failed task and
\* the reported count is the number of failures.
C9_RejectsAfterAllSettled ==
  \A r \in RunIds :
    /\ runpc[r] = "resolved" => Failed = {}
    /\ runpc[r] = "rejected" =>
         /\ Failed # {}
         /\ \A t \in Range(submitted) : tstate[t] = "done" /\ starts[t] = 1
         /\ Len(errors) = Cardinality(Failed)
         /\ Range(errors) = {ErrorOf(t) : t \in Failed}
         /\ thrownCount[r] = Cardinality(Failed)

\* C9 witness: with one slot, the first task failed, a later sibling still
\* ran and succeeded, and run() then rejected.
C9_Witness ==
  /\ concurrency = 1
  /\ Len(submitted) >= 2
  /\ outcome[submitted[1]] = "fail"
  /\ outcome[submitted[2]] = "ok"
  /\ \E r \in RunIds : runpc[r] = "rejected"

\* C10: once a run() has settled, every later add() throws and every later
\* run() rejects, and no step changes the queue, the results or the errors.
C10_CompletedIsFinal ==
  [][(\E r \in RunIds : Settled(r)) =>
       /\ completed /\ completed'
       /\ tasks' = tasks /\ results' = results /\ errors' = errors
       /\ \A t \in TaskIds :
            (tstate[t] = "new" /\ tstate'[t] # "new") => tstate'[t] = "refused"
       /\ \A r \in RunIds :
            (runpc[r] = "idle" /\ runpc'[r] # "idle") => runpc'[r] = "refused"
    ]_vars

\* C10 witness: after a run() settled, an add() has thrown and a second
\* run() has been rejected.
C10_Witness ==
  /\ \E r \in RunIds : Settled(r)
  /\ \E t \in TaskIds : tstate[t] = "refused"
  /\ \E r \in RunIds : runpc[r] = "refused"

\* C11: provided every started task settles, from some point on no run()
\* is left suspended, so that every run() that was called has settled; once
\* a run() has settled the queue and the in-flight set are empty and every
\* task add() accepted has been started exactly once.
C11_RunSettlesWithEveryTaskStarted ==
  /\ [](\A r \in RunIds :
          Settled(r) =>
            /\ tasks = <<>> /\ running = <<>> /\ InFlight = {}
            /\ \A t \in Range(submitted) : starts[t] = 1)
  /\ <>[](\A r \in RunIds : runpc[r] # "awaiting")

\* C11 witness: a run() settled after tasks were accepted both before it
\* was called and while it was suspended (more accepted tasks than one
\* pass could start at once).
C11_Witness ==
  /\ \E r \in RunIds : Settled(r)
  /\ Len(submitted) > concurrency
  /\ \A t \in Range(submitted) : starts[t] = 1

(***************************************************************************)
(* Properties of the HttpClient and the BatchedRequestManager              *)
(***************************************************************************)
\* the requests executing on pool entry e
Holders(e) == {q \in CallIds : rpc[q] = "requesting" /\ held[q] = e}

Waiting(q) == rpc[q] = "waiting"

\* the waiters of host key h whose deadline has not fired, oldest first
LiveWaiters(h) == SelectSeq(pending[h], Waiting)

\* the callers that were handed entry e's promise
Followers(e) == {c \in CallIds : cstate[c] = "called" /\ follows[c] = e}

\* whether the promise caller c was handed has settled, and how
CallerSettled(c) ==
  IF follows[c] # 0
  THEN estate[follows[c]] \in {"resolved", "rejected"}
  ELSE rpc[c] \in {"done", "failed"}

CallerOutcome(c) == IF follows[c] # 0 THEN eout[follows[c]] ELSE <<rout[c], c>>

\* how many times makeRequest was invoked for the fingerprint of entry e
MakeRequestCalls(e) ==
  Cardinality({q \in CallIds :
                 /\ made[q]
                 /\ ereq[q] # <<>>
                 /\ EntryKey(Fields, q) = EntryKey(Fields, e)})

\* something is still due to happen without any new call: a continuation,
\* a transport response or timeout, a waiter's deadline, a flush timer, or
\* the end of a flush
CanProgress ==
  \/ createQ # <<>>
  \/ \E q \in CallIds : rpc[q] \in {"requesting", "waiting"}
  \/ flushTimers > 0
  \/ \E b \in CallIds :
       BatchMembers(b) # {} /\ \A e \in BatchMembers(b) : InnerSettled(e)

\* What DispatchOne relies on when the client batches: every buffered
\* entry is the one requestCache holds for its fingerprint, so the lookup
\* made for it at dispatch finds an entry.
RequestCacheCoversBatch ==
  enableBatching =>
    /\ \A i \in 1..Len(pendingRequests) :
         requestCache[EntryKey(Fields, pendingRequests[i])] = pendingRequests[i]
    /\ \A e \in CallIds : estate[e] = "inflight" => innerFollows[e] # 0

\* C1 (as claimed): in the default configuration, when two or more callers
\* asked for the same fingerprint in one batch window, makeRequest is never
\* invoked more than once for it and, once nothing is left to happen, it
\* has been invoked exactly once and every one of these callers has settled
\* with the same outcome.
C1_OneTransportCallPerFingerprint ==
  \A e \in CallIds :
    (enableBatching /\ Cardinality(Followers(e)) >= 2) =>
      /\ MakeRequestCalls(e) <= 1
      /\ ~CanProgress =>
           /\ MakeRequestCalls(e) = 1
           /\ \A c \in Followers(e) : CallerSettled(c)
           /\ \A c, d \in Followers(e) : CallerOutcome(c) = CallerOutcome(d)

\* C2 (as claimed): in the default configuration no caller is left pending
\* for ever: while a caller's promise is pending, something that leads to
\* its settlement is still due to happen.
C2_NoCallerLeftPending ==
  \A c \in CallIds :
    (enableBatching /\ cstate[c] = "called" /\ ~CallerSettled(c)) => CanProgress

\* C3 (as claimed): no host's pool.connections ever holds more than
\* maxConnectionsPerHost entries.
C3_PoolWithinLimit ==
  \A h \in Hosts : Len(connections[h]) <= maxConnectionsPerHost

\* C4 (as claimed): whenever a request releases its connection while its
\* host has waiters, the longest-waiting waiter proceeds on a connection.
C4_ReleaseWakesLongestWaiter ==
  [][\A q \in CallIds :
       ( /\ rpc[q] = "requesting"
         /\ rpc'[q] \in {"done", "failed"}
         /\ LiveWaiters(rhost[q]) # <<>> )
       => rpc'[Head(LiveWaiters(rhost[q]))] = "requesting"
    ]_vars

\* C5 (as claimed): a waiter whose deadline elapsed has rejected with the
\* timeout error, is in no host's wait list and has received no connection.
C5_TimedOutWaiterRemoved ==
  \A q \in CallIds :
    rout[q] = "waitTimeout" =>
      /\ rpc[q] = "failed"
      /\ held[q] = 0 /\ ~made[q]
      /\ \A h \in Hosts : q \notin Range(pending[h])

\* C6: every pool entry is executed on by at most one request at a time,
\* and its inUse flag is set exactly while a request executes on it.
C6_EntryHeldByAtMostOne ==
  \A h \in Hosts : \A i \in 1..Len(connections[h]) :
    LET e == connections[h][i]
    IN  /\ Cardinality(Holders(e)) <= 1
        /\ inUse[e] <=> Holders(e) # {}

\* C6 witness: a request executes on an entry that an earlier request
\* created and released, while the entry is marked in use.
C6_Witness ==
  \E q \in CallIds :
    /\ rpc[q] = "requesting"
    /\ held[q] # 0 /\ held[q] # q
    /\ inUse[held[q]]
    /\ rpc[held[q]] \in {"done", "failed"}

\* C23 (as claimed): when close() returns, every transport that was in a
\* host's pool, agent or HTTP/2 session, has been destroyed and the pool
\* map is empty.
C23_CloseDestroysEveryTransport ==
  [][closes' > closes =>
       /\ Pooled(Fields) \subseteq destroyed'
       /\ poolKeys' = {}
    ]_vars

\* C24 (as claimed): a request() made after close() fails without creating
\* a pool entry and without starting or receiving a connection.
C24_RequestAfterCloseFails ==
  [][\A c \in CallIds :
       (closes > 0 /\ cstate[c] = "new" /\ cstate'[c] = "called") =>
         /\ rpc'[c] = "failed"
         /\ poolKeys' = poolKeys
         /\ held'[c] = 0
    ]_vars

\* the entries that are buffered or in flight, and those of fingerprint k
Live(e) == estate[e] \in {"buffered", "inflight"}

EntrySettled(e) == estate[e] \in {"resolved", "rejected"}

LiveFor(k) == {e \in CallIds : Live(e) /\ EntryKey(Fields, e) = k}

\* caller c's request() call on the manager is this step
CallsNow(c) == cstate[c] = "new" /\ cstate'[c] = "called"

\* the fingerprint of the request caller c makes in this step
CallKey(c) == CacheKey(creq'[c][1], creq'[c][2])

\* C25: for a manager over a client that does not batch, there is never
\* more than one buffered or in-flight entry per fingerprint, every caller
\* holds the promise of an entry of its own fingerprint, and a request()
\* made while an entry of its fingerprint is buffered or in flight creates
\* no entry and is handed that entry's promise, hence its outcome.
C25_OneEntryPerFingerprint ==
  /\ [](\A k \in Keys : Cardinality(LiveFor(k)) <= 1)
  /\ [](\A c \in CallIds : cstate[c] = "called" =>
          /\ follows[c] # 0
          /\ EntryKey(Fields, follows[c]) = CacheKey(creq[c][1], creq[c][2]))
  /\ [][\A c \in CallIds : CallsNow(c) =>
          \A e \in LiveFor(CallKey(c)) :
            /\ follows'[c] = e
            /\ estate'[c] = "none"
            /\ pendingRequests' = pendingRequests
       ]_vars

\* C25 witness: a caller was handed the promise of another caller's entry,
\* which has since resolved.
C25_Witness ==
  \E c \in CallIds :
    /\ cstate[c] = "called"
    /\ follows[c] \notin {0, c}
    /\ estate[follows[c]] = "resolved"

\* the entries of fingerprint k that have settled
SettledFor(k) == {e \in CallIds : EntrySettled(e) /\ EntryKey(Fields, e) = k}

\* C26: requestCache.delete runs exactly once for an entry, in the stretch
\* that settles its promise; a request() made after that for the same URL
\* and options is never handed the settled promise, and when no newer
\* entry of that fingerprint is buffered or in flight it creates one, whose
\* dispatch issues a network operation of its own.
C26_ClearedOnceOnSettlement ==
  /\ [](\A e \in CallIds :
          /\ cleared[e] = IF EntrySettled(e) THEN 1 ELSE 0
          /\ EntrySettled(e) => requestCache[EntryKey(Fields, e)] # e
          /\ estate[e] = "inflight" => rpc[e] # "none")
  /\ [][\A c \in CallIds :
          (CallsNow(c) /\ SettledFor(CallKey(c)) # {}) =>
            /\ follows'[c] \notin SettledFor(CallKey(c))
            /\ LiveFor(CallKey(c)) = {} =>
                 /\ follows'[c] = c
                 /\ Live(c)'
                 /\ requestCache'[CallKey(c)] = c
       ]_vars

\* C26 witness: after an entry settled, a request for the same fingerprint
\* got an entry of its own, which was dispatched to the pool.
C26_Witness ==
  \E c, e \in CallIds :
    /\ e # c
    /\ EntrySettled(e)
    /\ follows[c] = c
    /\ ereq[c] = ereq[e]
    /\ rpc[c] # "none"

\* C27 (as claimed): an entry whose own network operation has settled is
\* settled without waiting for the other requests of its flush: it is
\* never in flight with its operation over while another request of the
\* flush is still running.
C27_SettlesWithOwnOperation ==
  \A e \in CallIds :
    (estate[e] = "inflight" /\ InnerSettled(e)) =>
      \A f \in BatchMembers(batchOf[e]) : InnerSettled(f)

\* C28 (as claimed): whatever maxBatchSize is, the request() call that
\* brings the buffer to maxBatchSize entries flushes in that same call.
C28_FullBufferFlushesAtOnce ==
  [][\A c \in CallIds :
       ( /\ CallsNow(c)
         /\ follows'[c] = c
         /\ Len(pendingRequests) + 1 = maxBatchSize )
       => (estate'[c] = "inflight" /\ pendingRequests' = <<>>)
    ]_vars

\* the entries detached by the flush that detached e
FlushOf(e) == {f \in CallIds : batchOf[f] # 0 /\ batchOf[f] = batchOf[e]}

\* C29: when the dispatch of a flush throws, every entry the flush
\* detached is rejected with that error and its fingerprint is deleted from
\* requestCache, and the entries left in the buffer stay buffered, pending
\* and registered in requestCache.
C29_ThrownDispatchRejectsTheFlush ==
  /\ \A e \in CallIds :
       (eout[e] # <<>> /\ eout[e][1] = "thrown") =>
         \A f \in FlushOf(e) :
           /\ estate[f] = "rejected"
           /\ eout[f] = eout[e]
           /\ cleared[f] = 1
           /\ requestCache[EntryKey(Fields, f)] # f
  /\ \A i \in 1..Len(pendingRequests) :
       LET g == pendingRequests[i]
       IN  /\ estate[g] = "buffered"
           /\ eout[g] = <<>>
           /\ cleared[g] = 0
           /\ requestCache[EntryKey(Fields, g)] = g

\* C29 witness: a flush of two entries was rejected as a whole because the
\* dispatch of its second entry threw, after the first had been dispatched.
C29_Witness ==
  \E e, f \in CallIds :
    /\ e # f
    /\ f \in FlushOf(e)
    /\ eout[e] = <<"thrown", f>>
    /\ estate[e] = "rejected" /\ estate[f] = "rejected"
    /\ rpc[e] # "none"

\* C30: every settled entry settled with the outcome of its own network
\* operation, so a failed request rejects the callers of its fingerprint
\* and no other request of the flush.
C30_FailureStaysWithItsRequest ==
  \A e \in CallIds :
    EntrySettled(e) =>
      /\ eout[e] = <<rout[e], e>>
      /\ estate[e] = "rejected" <=> rout[e] # "ok"
      /\ \A c \in Followers(e) : CallerOutcome(c) = <<rout[e], e>>

\* C30 witness: of two requests of one flush, one failed and was rejected
\* and the other resolved.
C30_Witness ==
  \E e, f \in CallIds :
    /\ e # f
    /\ f \in FlushOf(e)
    /\ estate[e] = "rejected" /\ rout[e] = "error"
    /\ estate[f] = "resolved"

\* the requests executing on pool entry e
ExecutingOn(e) == {q \in CallIds : rpc[q] = "requesting" /\ held[q] = e}

\* C31: in the step in which a request that was executing on a pool entry
\* settles, with success or with an error, the entry it held becomes idle,
\* and no other entry's inUse or lastUsed, and no pool's entry list, changes.
C31_SettleReleasesOnlyItsEntry ==
  [][\A q \in CallIds :
       (rpc[q] = "requesting" /\ rpc'[q] \in {"done", "failed"}) =>
         /\ ~inUse'[held[q]]
         /\ \A e \in CallIds \ {held[q]} : inUse'[e] = inUse[e]
         /\ lastUsed' = lastUsed
         /\ connections' = connections
         /\ held' = held
    ]_vars

\* C31 witness: a request failed in makeRequest and the entry it held is
\* idle, while the request of the other host is still executing on its own
\* entry, which is in use.
C31_Witness ==
  \E q, r \in CallIds :
    /\ rpc[q] = "failed" /\ rout[q] = "error" /\ made[q]
    /\ ~inUse[held[q]]
    /\ rpc[r] = "requesting" /\ rhost[r] # rhost[q]
    /\ held[r] # held[q] /\ inUse[held[r]]

\* the entries in the pool of host h
PoolOf(h) == IF h \in poolKeys THEN Range(connections[h]) ELSE {}

\* the idle entries of host h last used less than 30 seconds ago
ReusableNow(h) ==
  {e \in PoolOf(h) : ~inUse[e] /\ now - lastUsed[e] < ReuseWindow}

\* the idle entries of host h last used 30 seconds ago or earlier
StaleNow(h) ==
  {e \in PoolOf(h) : ~inUse[e] /\ now - lastUsed[e] >= ReuseWindow}

\* C32: a request called for a host that has an idle pool entry last used
\* within the reuse window executes on one of those entries in the same
\* step, and no pool gains an entry and no connection is being created for
\* it; a request never starts executing on an idle entry past the window,
\* and such an entry is still in its pool after every step but close().
C32_ReuseWithinWindowOnly ==
  [][/\ \A q \in CallIds :
          (cstate[q] = "new" /\ cstate'[q] = "called"
             /\ ReusableNow(rhost'[q]) # {}) =>
            /\ rpc'[q] = "requesting"
            /\ held'[q] \in ReusableNow(rhost'[q])
            /\ connections' = connections
            /\ createQ' = createQ
            /\ transport' = transport
     /\ \A q \in CallIds, h \in Hosts :
          (rpc[q] # "requesting" /\ rpc'[q] = "requesting") =>
            held'[q] \notin StaleNow(h)
     /\ \A h \in Hosts :
          closes' = closes => StaleNow(h) \subseteq PoolOf(h)'
    ]_vars

\* C32 witness: a request is executing on the entry another request of the
\* same host created and released, and that entry is the host's only one.
C32_Witness ==
  \E q, r \in CallIds :
    /\ q # r /\ rhost[q] = rhost[r]
    /\ rpc[r] \in {"done", "failed"} /\ made[r]
    /\ rpc[q] = "requesting" /\ held[q] = r
    /\ PoolOf(rhost[q]) = {r}
    /\ createQ = <<>>

\* C37 (as claimed): a request called while no request of its host was in
\* flight and every entry of the host's pool was idle does not fail with
\* the connection-wait timeout.
C37_IdlePoolServesNewRequest ==
  \A q \in calledIdle : rout[q] # "waitTimeout"

\* the entries a flush has detached from the buffer
Detached == {e \in CallIds : estate[e] \notin {"none", "buffered"}}

\* C40: whenever pendingRequests is non-empty, a flush timer armed at or
\* after the moment it last became non-empty is pending; a timer that fires
\* leaves the buffer empty; and an entry a flush has detached is never
\* buffered again nor taken by another flush.
C40_BufferedHasPendingTimer ==
  /\ [](pendingRequests # <<>> => freshTimers >= 1)
  /\ [][/\ flushTimers' < flushTimers => pendingRequests' = <<>>
        /\ \A e \in Detached :
             /\ e \in Detached' /\ e \notin Range(pendingRequests')
             /\ batchOf'[e] = batchOf[e]
       ]_vars

\* C40 witness: a flush by size detached one entry and left another in the
\* buffer, and the timer armed when the buffer became non-empty is pending.
C40_Witness ==
  /\ pendingRequests # <<>>
  /\ Detached # {}
  /\ flushTimers = 1 /\ freshTimers = 1

(***************************************************************************)
(* Properties of the caches                                                *)
(***************************************************************************)
Resident == {k \in CacheKeys : cache[k] # Absent}

\* the n most recently touched keys
MostRecentlyTouched(n) ==
  {touched[i] : i \in (Len(touched) - Min(n, Len(touched)) + 1)..Len(touched)}

\* C12 (as claimed): after any sequence of get and set calls the resident
\* keys are exactly the min(maxSize, number of distinct keys touched) most
\* recently touched keys, a get hit and every set counting as a touch.
C12_ResidentAreMostRecentlyTouched ==
  onlyGetSet => Resident = MostRecentlyTouched(maxSize)

\* C13: size() never exceeds maxSize, whatever get, set, delete and clear
\* calls were made; the Set of keys in access order and the Map hold the
\* same keys.
C13_SizeWithinMaxSize ==
  /\ LRUSize(Memory) <= maxSize
  /\ Range(accessOrder) = Resident

\* C13 witness: a full cache that has already evicted a key (a touched key
\* is no longer resident) and went through a delete or a clear.
C13_Witness ==
  /\ LRUSize(Memory) = maxSize
  /\ \E k \in Range(touched) : k \notin Resident
  /\ ~onlyGetSet

\* the calls that went through FileCache.get and have settled
FileReads ==
  {c \in CallIds : cop[c] \in {"get", "fget"} /\ cfileTier[c] /\ cpc[c] = "done"}

\* the calls whose FileCache.set resolved
FileWrites ==
  {c \in CallIds : cop[c] \in {"set", "fset"} /\ cpc[c] = "done"
                   /\ cres[c] = <<"returned", JUndefined>>}

\* no other call on the key of s and g was in progress at any time between
\* the moment s settled and the moment g settled
NoOpBetween(s, g) ==
  \A o \in CallIds \ {s, g} :
    (cop[o] # "none" /\ ckey[o] = ckey[s]) =>
      (o \in cdoneAtEnd[s] \/ g \in cprior[o])

C15_RoundTrip ==
  \A s \in FileWrites, g \in FileReads :
    ( /\ cop[s] = "fset" /\ cop[g] = "fget"
      /\ ckey[g] = ckey[s]
      /\ s \in cprior[g]
      /\ NoOpBetween(s, g)
      /\ cfault[g] # "unreadable"
      /\ cage[g] < ttl )
    => cres[g] = <<"returned", cval[s]>>

\* C15 witness: the string "1" was written and a get made afterwards, with
\* no time gone by, returned the string "1".
C15_Witness ==
  \E s \in FileWrites, g \in FileReads :
    /\ cop[s] = "fset" /\ cop[g] = "fget"
    /\ ckey[g] = ckey[s] /\ s \in cprior[g]
    /\ cval[s] = JStrOne
    /\ cres[g] = <<"returned", JStrOne>>
    /\ cage[g] = 0

\* the entry the file tier holds for key k: the text of an unexpired file
FileEntry(k) ==
  LET f == files[SanitizeKey(k)]
  IN  IF dirExists /\ f.exists /\ Fresh(cnow - f.mtime) THEN f.data ELSE <<>>

\* call c settles in this step
Settles(c) == cpc[c] # "done" /\ cpc'[c] = "done"

\* C16 (as claimed): a PackageCache.get of a key resident in memory returns
\* the memory value without calling into the file tier; a get that missed
\* memory and read a value from the file tier returns that value and leaves
\* it in memory under the key; a get that missed both tiers returns null
\* and changes the entry of the key in neither tier.
C16_GetReadsThroughTiers ==
  [][\A c \in CallIds, k \in CacheKeys :
       LET f == files[SanitizeKey(k)]
       IN  (cop'[c] = "get" /\ ckey'[c] = k /\ Settles(c)) =>
             /\ (cop[c] = "none" /\ cache[k] # Absent) =>
                  /\ cres'[c] = <<"returned", cache[k]>>
                  /\ ~cfileTier'[c]
                  /\ files' = files
             /\ ( /\ cpc[c] = "read" /\ cfault'[c] = "none"
                  /\ JSONParse(f.data) # JNull ) =>
                  /\ cres'[c] = <<"returned", JSONParse(f.data)>>
                  /\ cache'[k] = JSONParse(f.data)
             /\ (cfileTier'[c] /\ cres'[c] = <<"returned", JNull>>) =>
                  /\ cache'[k] = cache[k]
                  /\ FileEntry(k)' = FileEntry(k)
    ]_vars

\* C17 (as claimed): a PackageCache.set whose file write failed does not
\* reject, and a warning was logged for it.
C17_WriteFailureIsWarning ==
  \A c \in CallIds :
    (cop[c] = "set" /\ cpc[c] = "done" /\ cfault[c] = "write") =>
      /\ cres[c][1] # "threw"
      /\ c \in warned

\* C18: a get that found the file missing, unreadable or not JSON did not
\* throw: FileCache.get returned null and so did PackageCache.get, which
\* had missed memory.
C18_ReadFailureIsMiss ==
  \A c \in FileReads :
    cfault[c] \in {"missing", "unreadable", "malformed"} =>
      cres[c] = <<"returned", JNull>>

\* C18 witness: one get() returned null on a file that is not JSON and
\* another one on a read the disk failed.
C18_Witness ==
  \E c, d \in FileReads :
    /\ cop[c] = "get" /\ cop[d] = "get"
    /\ cfault[c] = "malformed" /\ cres[c] = <<"returned", JNull>>
    /\ cfault[d] = "unreadable" /\ cres[d] = <<"returned", JNull>>

KeyAbsent(k) == cache[k] = Absent /\ ~files[SanitizeKey(k)].exists

Deletes == {c \in CallIds : cop[c] = "delete" /\ cpc[c] = "done"}

\* the other calls on the key of call d
OnSameKey(d) == {o \in CallIds \ {d} : cop[o] # "none" /\ ckey[o] = ckey[d]}

LeastRecentlyTouched(S) ==
  touched[CHOOSE i \in 1..Len(touched) :
            /\ touched[i] \in S
            /\ \A j \in 1..(i - 1) : touched[j] \notin S]

\* C34 (as claimed): in a full LRUCache of capacity 2 or more, when the
\* call right after a get(k) hit is the set of a key that is not resident,
\* that set evicts the least recently touched resident key other than k
\* and leaves k resident.
C34_EvictsLeastRecentlyTouchedButHit ==
  [][\A k, c \in CacheKeys :
       ( /\ lastHit = k /\ maxSize >= 2 /\ LRUSize(Memory) = maxSize
         /\ c \notin Resident /\ c \in Resident' ) =>
         /\ Resident' =
              (Resident \ {LeastRecentlyTouched(Resident \ {k})}) \cup {c}
         /\ k \in Resident'
    ]_vars

\* C35 (as claimed): a FileCache.get that found the entry expired does not
\* destroy the value of a set of the same key that resolved between the
\* get's age check and its unlink: when both have settled and no ttl has
\* gone by, the file tier holds the text of the value that was set.
C35_ExpiredGetSparesInterleavedSet ==
  \A g \in FileReads, s \in FileWrites :
    ( /\ cop[g] = "fget" /\ cop[s] = "fset"
      /\ ckey[g] = ckey[s]
      /\ cage[g] >= ttl
      /\ s \notin cprior[g] /\ s \in cdoneAtEnd[g]
      /\ cnow < ttl )
    => FileEntry(ckey[s]) = JSONStringify(cval[s])

\* C36 (as claimed): once PackageCache.delete(key) has resolved, every other
\* call on the key is a get and all of them have returned, the memory tier
\* does not hold the key, and a get made after the delete resolved
\* returned null.
C36_OverlappingGetNeverReinserts ==
  \A d \in Deletes :
    ( /\ cop[d] = "delete"
      /\ \A o \in OnSameKey(d) : cop[o] = "get" /\ cpc[o] = "done" )
    => /\ cache[ckey[d]] = Absent
       /\ \A g \in OnSameKey(d) :
            d \in cprior[g] => cres[g] = <<"returned", JNull>>

\* this step is a clear(): no call is made or resumed and memory is written
\* or clearedSince is
ClearRuns ==
  /\ cop' = cop /\ cpc' = cpc /\ cnow' = cnow
  /\ clearedSince' # clearedSince \/ cache' # cache

\* a clear() ran after call s had settled and before call g was made
ClearedBetween(s, g) == s \in cafterClear[g]

SequentialReduce == ArrayReduce(redArray, <<"num", redInitial>>)

\* C20 (as claimed): with integer addition, parallelReduce resolves with the
\* value of the sequential array.reduce(add, initial), for every array,
\* initial value and concurrency.
C20_ReduceEqualsSequentialSum ==
  redPc = "done" => redResult = SequentialReduce

\* the arrays of a sequence of arrays, joined in order
RECURSIVE Concat(_)
Concat(ss) == IF ss = <<>> THEN <<>> ELSE Head(ss) \o Concat(Tail(ss))

\* C33: for an input of length n >= 1 and concurrency K >= 1 the chunks are
\* at most K, none is empty, and joined in order they are the input; each
\* chunk result is the fold of its chunk from undefined, not from the
\* caller's initial value, and the resolved value is the fold of the chunk
\* results from the initial value; for an empty input there is no chunk and
\* the resolved value is the initial value.
C33_ChunksPartitionInput ==
  LET chunks == Chunks(redArray, redK)
  IN  /\ Len(redArray) >= 1 =>
           /\ Len(chunks) >= 1 /\ Len(chunks) <= redK
           /\ \A i \in 1..Len(chunks) : chunks[i] # <<>>
      /\ Concat(chunks) = redArray
      /\ redPc # "called" =>
           /\ Len(chunkResults) = Len(chunks)
           /\ \A i \in 1..Len(chunks) :
                chunkResults[i] = ArrayReduce(chunks[i], JUndefined)
      /\ redPc = "done" =>
           redResult = ValuesReduce(chunkResults, <<"num", redInitial>>)
      /\ (redPc = "done" /\ redArray = <<>>) =>
           (chunkResults = <<>> /\ redResult = <<"num", redInitial>>)

\* C33 witness: an input of three elements was reduced with concurrency 2,
\* in a chunk of two elements and a chunk of one.
C33_Witness ==
  /\ redPc = "done"
  /\ Len(redArray) = 3 /\ redK = 2
  /\ Len(chunkResults) = 2
  /\ Len(Chunks(redArray, redK)[1]) = 2
  /\ Len(Chunks(redArray, redK)[2]) = 1

(***************************************************************************)
(* Properties of parallelMap and the WorkerPool                            *)
(***************************************************************************)
\* C21: when parallelMap resolves, the array it returns has the length of
\* the input and its i-th element is the result of mapper(array[i], i),
\* whatever the order in which the mapper calls settled and whatever the
\* concurrency; it rejects only when a mapper call failed.
C21_MapPreservesInputOrder ==
  /\ pmPc = "resolved" =>
       /\ Len(pmResults) = Len(pmArray)
       /\ \A i \in 1..Len(pmArray) : pmResults[i] = Mapper(pmArray[i], i - 1)
  /\ pmPc = "rejected" => \E t \in 1..Len(pmArray) : outcome[t] = "fail"

\* C21 witness: parallelMap has resolved on two different items that ran
\* side by side, the second one's mapper having settled first.
C21_Witness ==
  /\ pmPc = "resolved"
  /\ Len(pmArray) = 2 /\ pmArray[1] # pmArray[2]
  /\ concurrency >= 2
  /\ results = <<ValueOf(2), ValueOf(1)>>

\* the tasks a worker is executing
Executing == {t \in TaskIds : wstate[t] = "executing" /\ wkind[t] = "function"}

\* C22 (as claimed): whatever execute() and destroy() calls are made, at
\* most `concurrency` tasks are executing at the same time and no worker
\* handle runs two tasks at once.
C22_WorkersWithinConcurrency ==
  /\ Cardinality(Executing) <= wconcurrency
  /\ \A t, u \in Executing : t # u => won[t] # won[u]

\* the execute() calls whose promise is pending and whose task no worker
\* has been given
Unstarted == {t \in TaskIds : wstate[t] \in {"queued", "dropped"}}

\* C38 (as claimed): whatever execute() and destroy() calls are made, an
\* execute() promise that is pending with its task not started is never
\* abandoned: its entry is in taskQueue, from where processQueue will hand
\* it to a worker.
C38_QueuedPromiseNotAbandoned ==
  \A t \in Unstarted : t \in Range(taskQueue)
====
